---- MODULE Spec2Model ----
(***************************************************************************)
(* Model of the provisioning and migration engine of wp-script             *)
(* (src/index.js, class WordPressSetup).  Each subsystem has its own       *)
(* specification over the shared variables:                                *)
(*   SpecDocker  ensureDockerMysql / createDockerMysql / waitForMysql      *)
(*   SpecPatch   updateWpConfig run repeatedly on one file                 *)
(*   SpecSR      performSearchReplace / performDirectSearchReplace         *)
(*   SpecAdmin   manageAdminUser and callees                               *)
(*   SpecSite    createWebsiteDirectory / createBackup                     *)
(*   SpecSeq     the external invocations of run(), call and return        *)
(*   Spec        run(): the whole pipeline                                 *)
(***************************************************************************)
EXTENDS Integers, Naturals, Sequences, FiniteSets, TLC

VARIABLES
    \* ---- container lifecycle (ensureDockerMysql and callees) ----
    dockerEnabled,  \* config.database.docker.enabled
    daemonUp,       \* the container runtime answers commands
    container,      \* "absent" | "stopped" | "running"
    containers,     \* number of containers carrying the configured name
    volumeExists,   \* the data volume exists
    readyAt,        \* the server accepts the readyAt-th probe of a call and later ones
    dpc,            \* position inside ensureDockerMysql
    dcall,          \* which call of ensureDockerMysql is executing (1 or 2)
    dfirst,         \* outcome of the first call: "none" | "ok" | "error"
    di,             \* loop variable i of waitForMysql
    probes,         \* readiness probes issued in the current call
    waits,          \* 2-second waits elapsed in the current call
    lastProbeOk,    \* outcome of the last probe of the current call
    dcmds,          \* docker/mysql commands issued in the current call, in order
    dstart,         \* container state when the current call began
    dorigin,        \* container state when the first call began
    \* ---- fields of the WordPressSetup object shared by the stages ----
    stage,          \* the method of run() that is executing
    ops,            \* external commands issued so far, in order
    serverUserPw,   \* password the server holds for the scoped user ("" = no such user)
    thisDbUser,     \* this.dbUser: "" until createDatabase stores the scoped user
    thisDbPassword, \* this.dbPassword: "" until createDatabase stores the scoped password
    \* ---- configuration patcher (updateWpConfig) ----
    wpConfigExists, \* wp-config.php exists in the site directory
    wpConfig,       \* content of wp-config.php (of wp-config-sample.php while it does not exist)
    enableDebug,    \* config.development.enableDebug
    disableFileEditing, \* config.security.disableFileEditing
    memoryLimit,    \* config.wordpress.memoryLimit ("" when unset)
    customWpConfig, \* config.custom.wpConfig
    patchRuns,      \* completed runs of updateWpConfig
    patchIn,        \* the text read by the first run
    firstOut,       \* the text written by the first run
    lastSalts,      \* the block generateSalts returned in the last run
    \* ---- content migration (performSearchReplace, performDirectSearchReplace) ----
    skipSearchReplace, \* config.advanced.skipSearchReplace
    srEnabled,      \* config.sql.searchReplace.enabled
    srDryRun,       \* config.sql.searchReplace.dryRun
    oldUrl,         \* config.sql.oldUrl
    oldDomain,      \* config.sql.oldDomain
    additionalReplacements, \* config.sql.searchReplace.additionalReplacements
    db,             \* the site database: table -> column -> stored text
    srpc,           \* position inside performSearchReplace
    srIdx,          \* index of the replacement rule being processed
    srBefore,       \* the database as it was when the current rule started
    srTables,       \* the tables returned by SHOW TABLES
    srTable,        \* index of the table the raw strategy is updating
    srCol,          \* index of the candidate column the raw strategy is updating
    srRaw,          \* rules for which the raw strategy has run to its end
    \* ---- admin identity (manageAdminUser and callees) ----
    sqlSource,      \* config.sql.source: "" (none), "missing" or "present" (the dump file)
    users,          \* rows of the users table: [ID, user_login, user_pass]
    usermeta,       \* rows of the usermeta table: [user_id, meta_key, meta_value]
    apc,            \* position inside manageAdminUser
    apath,          \* the path manageAdminUser took: "" | "update" | "create"
    hashedPassword, \* the value hashWordPressPassword returned
    userId,         \* the identifier createAdminUser read back (0 = none)
    \* ---- provisioning, import and the pipeline (createDatabase, importDatabase, run) ----
    skipDatabaseCreation, \* config.advanced.skipDatabaseCreation
    createUser,     \* config.database.createUser
    optimizeAfterImport,  \* config.sql.optimizeAfterImport
    repairAfterImport,    \* config.sql.repairAfterImport
    dbExists,       \* the site database exists on the server
    cdpc,           \* position inside createDatabase
    ipc,            \* position inside importDatabase
    dryRun,         \* config.advanced.dryRun
    \* ---- site directory (createWebsiteDirectory, createBackup) ----
    forceOverwrite, \* config.advanced.forceOverwrite
    backupBeforeSetup, \* config.backup.enabled && config.backup.beforeSetup
    includeFiles,   \* config.backup.includeFiles
    includeDatabase, \* config.backup.includeDatabase
    siteDir,        \* this.websitePath: "absent" | "existing" | "new"
    backupFiles,    \* the backup directory holds a copy of the site directory
    sitepc          \* position inside createWebsiteDirectory

dockerVars == <<dockerEnabled, daemonUp, container, containers, volumeExists,
                readyAt, dpc, dcall, dfirst, di, probes, waits, lastProbeOk, dcmds,
                dstart, dorigin>>

thisVars == <<stage, serverUserPw, thisDbUser, thisDbPassword>>

patchVars == <<wpConfigExists, wpConfig, enableDebug, disableFileEditing, memoryLimit,
               customWpConfig, patchRuns, patchIn, firstOut, lastSalts>>

srVars == <<skipSearchReplace, srEnabled, srDryRun, oldUrl, oldDomain, additionalReplacements,
            db, srpc, srIdx, srBefore, srTables, srTable, srCol, srRaw>>

adminVars == <<sqlSource, users, usermeta, apc, apath, hashedPassword, userId>>

runVars == <<skipDatabaseCreation, createUser, optimizeAfterImport, repairAfterImport,
             dbExists, cdpc, ipc, dryRun,
             forceOverwrite, backupBeforeSetup, includeFiles, includeDatabase,
             siteDir, backupFiles, sitepc>>

vars == <<dockerVars, thisVars, ops, patchVars, srVars, adminVars, runVars>>

\* the state of a subsystem that a specification does not exercise
IdleThis == serverUserPw = "" /\ thisDbUser = "" /\ thisDbPassword = "" /\ ops = <<>>

\* an external command: the stage that issued it, the command, its subject,
\* the credentials it authenticates with, and whether it succeeded
Op(st, cmd, arg, u, pw, ok) ==
    [stage |-> st, cmd |-> cmd, arg |-> arg, user |-> u, pw |-> pw, ok |-> ok]
\* the event of a stage raising an error
Throw(st) == Op(st, "throw", <<>>, "", "", FALSE)
\* the log after a command, followed by the throw when the command's failure raises
Logged(op, raises) == IF raises THEN ops \o <<op, Throw(op.stage)>> ELSE Append(ops, op)

\* run(), lines 1603-1609: an error raised by a stage ends the process with
\* status 1.  Mutated to carry on with the stage after a failed import.
Raise_m(st) == IF st = "importDatabase" THEN "performSearchReplace" ELSE "exit1"
Raise(st) == "exit1"
IdlePatch ==
    /\ wpConfigExists = FALSE
    /\ wpConfig = <<>>
    /\ enableDebug = FALSE
    /\ disableFileEditing = FALSE
    /\ memoryLimit = ""
    /\ customWpConfig = <<>>
    /\ patchRuns = 0
    /\ patchIn = <<>>
    /\ firstOut = <<>>
    /\ lastSalts = <<>>

IdleSR ==
    /\ skipSearchReplace = FALSE
    /\ srEnabled = TRUE
    /\ srDryRun = FALSE
    /\ oldUrl = <<>>
    /\ oldDomain = <<>>
    /\ additionalReplacements = <<>>
    /\ db = <<>>
    /\ srpc = "entry"
    /\ srIdx = 1
    /\ srBefore = <<>>
    /\ srTables = <<>>
    /\ srTable = 1
    /\ srCol = 1
    /\ srRaw = {}

IdleAdmin ==
    /\ sqlSource = "present"
    /\ users = <<>>
    /\ usermeta = {}
    /\ apc = "entry"
    /\ apath = ""
    /\ hashedPassword = <<>>
    /\ userId = 0

IdleRun ==
    /\ skipDatabaseCreation = FALSE
    /\ createUser = FALSE
    /\ optimizeAfterImport = FALSE
    /\ repairAfterImport = FALSE
    /\ dbExists = TRUE
    /\ cdpc = "entry"
    /\ ipc = "entry"
    /\ dryRun = FALSE
    /\ forceOverwrite = FALSE
    /\ backupBeforeSetup = FALSE
    /\ includeFiles = FALSE
    /\ includeDatabase = FALSE
    /\ siteDir = "absent"
    /\ backupFiles = FALSE
    /\ sitepc = "entry"

----------------------------------------------------------------------------
(* Container lifecycle                                                      *)

\* waitForMysql(maxAttempts = 30)
MaxAttempts == 30

\* the for-loop condition of waitForMysql, mutated to admit one more round
LoopContinues_m(i) == i <= MaxAttempts
\* the for-loop condition of waitForMysql: i < maxAttempts
LoopContinues(i) == i < MaxAttempts

ContainerStates == {"absent", "stopped", "running"}

\* the set of probe numbers at which the stub server may start accepting;
\* MaxAttempts + 1 stands for "not within the polling budget"
ReadyAtSet == 1..(MaxAttempts + 1)

\* docker ps -a --filter name=... : non-empty output iff a container exists;
\* a failing command is caught and read as "does not exist"
ContainerExists == daemonUp /\ container # "absent"

\* docker ps --filter name=... : non-empty output iff the container runs
IsRunning == daemonUp /\ container = "running"

\* mysql -e "SELECT 1" succeeds once the server accepts connections
ProbeSucceeds == daemonUp /\ container = "running" /\ probes + 1 >= readyAt

InitDocker ==
    /\ dockerEnabled \in BOOLEAN
    /\ daemonUp \in BOOLEAN
    /\ container \in ContainerStates
    /\ containers = IF container = "absent" THEN 0 ELSE 1
    /\ volumeExists \in BOOLEAN
    /\ readyAt \in ReadyAtSet
    /\ dpc = "entry"
    /\ dcall = 1
    /\ dfirst = "none"
    /\ di = 0
    /\ probes = 0
    /\ waits = 0
    /\ lastProbeOk = FALSE
    /\ dcmds = <<>>
    /\ dstart = container
    /\ dorigin = container
    /\ stage = "ensureDockerMysql"
    /\ IdleThis /\ IdlePatch /\ IdleSR /\ IdleAdmin /\ IdleRun

IdleDocker ==
    /\ dockerEnabled = FALSE
    /\ daemonUp = TRUE
    /\ container = "absent"
    /\ containers = 0
    /\ volumeExists = FALSE
    /\ readyAt = 1
    /\ dpc = "entry"
    /\ dcall = 1
    /\ dfirst = "none"
    /\ di = 0
    /\ probes = 0
    /\ waits = 0
    /\ lastProbeOk = FALSE
    /\ dcmds = <<>>
    /\ dstart = "absent"
    /\ dorigin = "absent"

\* what every step of a call leaves alone
DockerFrame == UNCHANGED <<dockerEnabled, daemonUp, readyAt, dcall, dfirst, dstart, dorigin,
                           thisVars, patchVars, srVars, adminVars, runVars>>

\* record a command of the container stage
Issue(c, ok, raises) ==
    /\ dcmds' = Append(dcmds, c)
    /\ ops' = Logged(Op("ensureDockerMysql", c, <<>>, "", "", ok), raises)

\* config.database.docker.enabled as createDatabase (line 503) and
\* ensureDockerMysql (line 588) test it, mutated to a manager that handles the
\* container whatever the configuration says
ContainerMode_m == TRUE
ContainerMode == dockerEnabled

\* ensureDockerMysql, entry: container mode disabled returns at once
EnsureEntry ==
    /\ stage = "ensureDockerMysql"
    /\ dpc = "entry"
    /\ dpc' = IF ContainerMode THEN "check" ELSE "done"
    /\ UNCHANGED <<container, containers, volumeExists, di, probes, waits, lastProbeOk, dcmds, ops>>
    /\ DockerFrame

\* ensureDockerMysql when the existence query found nothing, mutated to
\* recreate the container whatever the query says
AfterCheck_m == "volume"
\* ensureDockerMysql, mutated to launch the container without creating the volume
AfterCheck_m2 == IF ContainerExists THEN "checkRunning" ELSE "run"
\* ensureDockerMysql: if (!containerExists) createDockerMysql() else check running
AfterCheck == IF ContainerExists THEN "checkRunning" ELSE "volume"

\* ensureDockerMysql: docker ps -a (existence query)
DockerPsAll ==
    /\ dpc = "check"
    /\ Issue("ps-a", daemonUp, FALSE)
    /\ dpc' = AfterCheck
    /\ UNCHANGED <<container, containers, volumeExists, di, probes, waits, lastProbeOk>>
    /\ DockerFrame

\* ensureDockerMysql: docker ps (running query); running means ready
DockerPs ==
    /\ dpc = "checkRunning"
    /\ Issue("ps", daemonUp, FALSE)
    /\ dpc' = IF IsRunning THEN "done" ELSE "start"
    /\ UNCHANGED <<container, containers, volumeExists, di, probes, waits, lastProbeOk>>
    /\ DockerFrame

\* ensureDockerMysql, lines 618-623: after docker start comes waitForMysql.
\* Mutated to report ready as soon as the container has been started.
AfterStart_m == "done"
AfterStart == "probe"

\* ensureDockerMysql: docker start of a stopped container, then waitForMysql
DockerStart ==
    /\ dpc = "start"
    /\ \E ok \in BOOLEAN :
         IF ok /\ daemonUp /\ container # "absent"
         THEN /\ Issue("start", TRUE, FALSE)
              /\ container' = "running"
              /\ dpc' = AfterStart
         ELSE /\ Issue("start", FALSE, TRUE)
              /\ container' = container
              /\ dpc' = "failed"
    /\ di' = 0
    /\ UNCHANGED <<containers, volumeExists, probes, waits, lastProbeOk>>
    /\ DockerFrame

\* createDockerMysql: docker volume create; a failure is swallowed
VolumeCreate ==
    /\ dpc = "volume"
    /\ \E ok \in BOOLEAN :
         /\ Issue("volume-create", ok /\ daemonUp, FALSE)
         /\ volumeExists' = (volumeExists \/ (ok /\ daemonUp))
    /\ dpc' = "run"
    /\ UNCHANGED <<container, containers, di, probes, waits, lastProbeOk>>
    /\ DockerFrame

\* createDockerMysql: docker run -d --name ...; on failure fall back to start.
\* The runtime refuses a second container with a name already in use; a run
\* that fails may leave the container created but not running.
DockerRun ==
    /\ dpc = "run"
    /\ \E ok \in BOOLEAN, left \in BOOLEAN :
         /\ Issue("run", ok /\ daemonUp /\ container = "absent", FALSE)
         /\ IF ok /\ daemonUp /\ container = "absent"
            THEN /\ container' = "running"
                 /\ containers' = containers + 1
                 /\ dpc' = "probe"
            ELSE /\ container' = IF left /\ daemonUp /\ container = "absent"
                                 THEN "stopped" ELSE container
                 /\ containers' = IF container' # "absent" THEN 1 ELSE 0
                 /\ dpc' = "fallbackStart"
    /\ di' = 0
    /\ UNCHANGED <<volumeExists, probes, waits, lastProbeOk>>
    /\ DockerFrame

\* createDockerMysql: docker start after a failed run; failure raises
FallbackStart ==
    /\ dpc = "fallbackStart"
    /\ \E ok \in BOOLEAN :
         IF ok /\ daemonUp /\ container # "absent"
         THEN /\ Issue("start", TRUE, FALSE)
              /\ container' = "running"
              /\ dpc' = "probe"
         ELSE /\ Issue("start", FALSE, TRUE)
              /\ container' = container
              /\ dpc' = "failed"
    /\ di' = 0
    /\ UNCHANGED <<containers, volumeExists, probes, waits, lastProbeOk>>
    /\ DockerFrame

\* waitForMysql: one probe; success returns, failure goes to the 2s wait
Probe ==
    /\ dpc = "probe"
    /\ LoopContinues(di)
    /\ Issue("probe", ProbeSucceeds, FALSE)
    /\ probes' = probes + 1
    /\ lastProbeOk' = ProbeSucceeds
    /\ dpc' = IF ProbeSucceeds THEN "done" ELSE "sleep"
    /\ UNCHANGED <<container, containers, volumeExists, di, waits>>
    /\ DockerFrame

\* waitForMysql: setTimeout 2000 in the catch block, then i++
Sleep ==
    /\ dpc = "sleep"
    /\ waits' = waits + 1
    /\ di' = di + 1
    /\ dpc' = "probe"
    /\ UNCHANGED <<container, containers, volumeExists, probes, lastProbeOk, dcmds, ops>>
    /\ DockerFrame

\* waitForMysql: loop exhausted, throw 'MySQL did not become ready ...'
Timeout ==
    /\ dpc = "probe"
    /\ ~LoopContinues(di)
    /\ dpc' = "timeout"
    /\ ops' = Append(ops, Throw("ensureDockerMysql"))
    /\ UNCHANGED <<container, containers, volumeExists, di, probes, waits, lastProbeOk, dcmds>>
    /\ DockerFrame

\* the caller invokes ensureDockerMysql a second time right after the first
SecondCall ==
    /\ dpc \in {"done", "failed", "timeout"}
    /\ dcall = 1
    /\ dcall' = 2
    /\ dfirst' = IF dpc = "done" THEN "ok" ELSE "error"
    /\ dpc' = "entry"
    /\ di' = 0
    /\ probes' = 0
    /\ waits' = 0
    /\ lastProbeOk' = FALSE
    /\ dcmds' = <<>>
    /\ dstart' = container
    /\ UNCHANGED <<dockerEnabled, daemonUp, readyAt, container, containers, volumeExists, dorigin>>
    /\ UNCHANGED <<thisVars, ops, patchVars, srVars, adminVars, runVars>>

NextDocker ==
    \/ EnsureEntry
    \/ DockerPsAll
    \/ DockerPs
    \/ DockerStart
    \/ VolumeCreate
    \/ DockerRun
    \/ FallbackStart
    \/ Probe
    \/ Sleep
    \/ Timeout
    \/ SecondCall

SpecDocker == InitDocker /\ [][NextDocker]_vars

\* positions of command c in the command list of the current call
Positions(c) == {j \in 1..Len(dcmds) : dcmds[j] = c}
\* every occurrence of command b comes after some occurrence of command a
Precedes(a, b) == \A j \in Positions(b) : \E k \in Positions(a) : k < j

\* C3: readiness bound.  A call never issues more than MaxAttempts (30)
\* probes, a 2-second wait has elapsed before every probe but the first, and
\* the timeout error is raised exactly when 30 probes have been issued and
\* all failed, with at least 29 waits elapsed.
Thm_C3_ReadinessBound ==
    /\ probes <= MaxAttempts
    /\ (dpc = "probe" => waits = probes)
    /\ (dpc = "sleep" => waits = probes - 1)
    /\ (dpc = "timeout" => /\ probes = MaxAttempts
                           /\ waits >= MaxAttempts - 1
                           /\ ~lastProbeOk)
Wit_C3_TimedOut == dpc = "timeout" /\ probes = MaxAttempts /\ waits >= MaxAttempts - 1

\* C9: ensureDockerMysql is idempotent.  After a successful first call the
\* second call issues no volume-create, run or start command and does not
\* fail; never do two containers with the configured name exist.
Thm_C9_EnsureIdempotent ==
    /\ containers <= 1
    /\ (dcall = 2 /\ dfirst = "ok" =>
          /\ Positions("volume-create") = {}
          /\ Positions("run") = {}
          /\ Positions("start") = {}
          /\ dpc \notin {"failed", "timeout"})
Wit_C9_SecondCallDone ==
    /\ dockerEnabled /\ dorigin = "absent"
    /\ dcall = 2 /\ dfirst = "ok" /\ dpc = "done"
    /\ dcmds = <<"ps-a", "ps">>

\* C10: from an absent container, the volume is created first (its failure
\* is ignored), then the container, then probes are issued; a server that
\* first accepts attempt k <= 30 makes the call return ready after exactly k
\* probes, never with the timeout error.
Thm_C10_CreateThenReady ==
    (dockerEnabled /\ dstart = "absent" /\ dcall = 1) =>
        /\ Precedes("volume-create", "run")
        /\ Precedes("run", "probe")
        /\ (dpc = "run" => dcmds[Len(dcmds)] = "volume-create")
        /\ (dpc = "failed" => dcmds[Len(dcmds)] = "start")
        /\ (dpc = "done" => probes = readyAt /\ lastProbeOk)
        /\ (readyAt <= MaxAttempts => dpc # "timeout")
Wit_C10_ReadyAtFourth ==
    /\ dockerEnabled /\ dstart = "absent" /\ dcall = 1
    /\ dpc = "done" /\ readyAt = 4 /\ probes = 4
    /\ dcmds[2] = "volume-create" /\ dcmds[3] = "run"

----------------------------------------------------------------------------
(* Configuration patcher (updateWpConfig, generateSalts)                    *)
(*                                                                          *)
(* The configuration text is a sequence of lines; a line is a token        *)
(* [t, k, f, v]: kind, key, spelling and value.  Spellings of a define:    *)
(* "sp" = define( 'K', ...   "dq" = define( "K", ...   "tight" = define('K' *)

Tok(t, k, f, v) == [t |-> t, k |-> k, f |-> f, v |-> v]
\* an empty line
Blank == Tok("blank", "", "", "")
\* a define() whose value is a quoted literal
Def(k, f, v) == Tok("def", k, f, v)
\* a define() whose value is a bare word (true, false)
DefRaw(k, f, v) == Tok("defraw", k, f, v)
\* the trailing marker comment; v is the rest of its line
Marker(v) == Tok("marker", "", "", v)
\* require_once(ABSPATH . 'wp-settings.php');  (the spelling without
\* parentheses is the same token with f = "bare")
ReqParen == Tok("req", "wp-settings.php", "paren", "")
\* Further kinds: "var" the assignment $table_prefix = '...';  "comment" a
\* comment line, k naming a key it mentions;  "custom" a user-supplied
\* line;  "other" any other line.

SaltKeys == <<"AUTH_KEY", "SECURE_AUTH_KEY", "LOGGED_IN_KEY", "NONCE_KEY",
              "AUTH_SALT", "SECURE_AUTH_SALT", "LOGGED_IN_SALT", "NONCE_SALT">>

\* config.database.*, this.dbName (createDefaultConfig, promptForWebsiteName)
RootUser == "root"
RootPassword == "rootpw"
ScopedUser == "wp_site"
ScopedPassword == "generated16"
MemoryLimit == "256M"

\* const dbUser = this.dbUser || this.config.database.user
EffectiveUser(u) == IF u # "" THEN u ELSE RootUser
\* const dbPassword = this.dbPassword || this.config.database.password
EffectivePassword(pw) == IF pw # "" THEN pw ELSE RootPassword

\* String.prototype.replace with a pattern without the g flag acts on the
\* first match: the least of the matching line indices, 0 if there is none
First(matches) ==
    IF matches = {} THEN 0 ELSE CHOOSE j \in matches : \A k \in matches : j <= k

\* /define\s*\(\s*['"]KEY['"]\s*,\s*['"][^'"]*['"]\s*\)/ : a define of KEY with
\* a quoted value, in any spelling
MatchesDefine(tok, key) == tok.t = "def" /\ tok.k = key

\* a password generateRandomPassword can return: its alphabet holds "$", and
\* here two of them stand side by side
DollarPassword == "gen$$erated16"

\* String.prototype.replace(pattern, replacement): the replacement is a
\* string, in which $$ stands for one $.  DollarPassword is the one value of
\* the model that holds this pattern.
ReplacementString(value) == IF value = DollarPassword THEN "gen$erated16" ELSE value

\* wpConfig.replace(regex, `define( 'KEY', 'value' )`): the first match only
ReplaceDefine(text, key, value) ==
    LET j == First({i \in 1..Len(text) : MatchesDefine(text[i], key)})
    IN  IF j = 0 THEN text ELSE [text EXCEPT ![j] = Def(key, "sp", ReplacementString(value))]

\* wpConfig.includes("define( 'KEY'") || wpConfig.includes('define( "KEY"')
HasDefine(text, key) ==
    \E j \in 1..Len(text) :
        text[j].t \in {"def", "defraw"} /\ text[j].k = key /\ text[j].f \in {"sp", "dq"}

\* wpConfig.includes('AUTH_KEY'): the substring, wherever it stands
HasAuthKey(text) == \E j \in 1..Len(text) : text[j].k \in {"AUTH_KEY", "SECURE_AUTH_KEY"}

\* wpConfig.includes("require_once(ABSPATH . 'wp-settings.php');")
HasReqParen(text) == \E j \in 1..Len(text) : text[j] = ReqParen

IsMarker(tok) == tok.t = "marker"

\* wpConfig.replace(/\/\*\s*That's all, stop editing!.*$/s, before + marker + after):
\* with the s flag the match runs from the first marker to the end of the text
ReplaceMarker(text, before, after) ==
    LET j == First({i \in 1..Len(text) : IsMarker(text[i])})
    IN  IF j = 0 THEN text
        ELSE SubSeq(text, 1, j - 1) \o before \o <<Marker("Happy publishing. */")>> \o after

\* generateKey of generateSalts: for (let i = 0; i < 64; i++).  Mutated to
\* a loop that stops one character early.
KeyLength_m == 64 - 1
KeyLength == 64

\* generateSalts: the remote block (eight defines and a final newline) or,
\* when the request fails, the local block (an empty line, eight defines,
\* each value KeyLength characters of the alphabet).  The n-th call draws
\* material different from the one before; a local key is shown as one
\* character of the alphabet repeated.
GenerateSalts(remoteOk, n) ==
    LET chars == <<"a", "Z", "9", "$", ")">>
        key == [i \in 1..KeyLength |-> chars[(n % Len(chars)) + 1]]
    IN  IF remoteOk
        THEN [j \in 1..Len(SaltKeys) |-> Def(SaltKeys[j], "tight", <<"api.wordpress.org", n>>)]
             \o <<Blank>>
        ELSE <<Blank>> \o [j \in 1..Len(SaltKeys) |-> Def(SaltKeys[j], "sp", key)]

\* the debugSettings array of updateWpConfig
DebugKeys == <<"WP_DEBUG", "WP_DEBUG_LOG", "WP_DEBUG_DISPLAY", "SCRIPT_DEBUG", "SAVEQUERIES">>
\* config.development.{debugLog, wpDebugLog, wpDebugDisplay, scriptDebug, saveQueries}
DebugValue(key) ==
    IF key = "WP_DEBUG_DISPLAY" THEN "false" ELSE "true"
RECURSIVE DebugSettingsFrom(_, _)
DebugSettingsFrom(text, j) ==
    IF j > Len(DebugKeys) THEN <<>>
    ELSE (IF HasDefine(text, DebugKeys[j]) THEN <<>>
          ELSE <<DefRaw(DebugKeys[j], "sp", DebugValue(DebugKeys[j]))>>)
         \o DebugSettingsFrom(text, j + 1)
DebugSettings(text) == DebugSettingsFrom(text, 1)

\* updateWpConfig, lines 707-716: the connection parameters
PatchConnection(text, u, pw) ==
    LET \* this.dbName, host:port and config.database.{charset, collate, prefix}
        t1 == ReplaceDefine(text, "DB_NAME", "wp_site")
        t2 == ReplaceDefine(t1, "DB_USER", EffectiveUser(u))
        t3 == ReplaceDefine(t2, "DB_PASSWORD", EffectivePassword(pw))
        t4 == ReplaceDefine(t3, "DB_HOST", "localhost:3306")
        t5 == ReplaceDefine(t4, "DB_CHARSET", "utf8mb4")
        t6 == ReplaceDefine(t5, "DB_COLLATE", "utf8mb4_unicode_ci")
    IN  ReplaceDefine(t6, "$table_prefix", "wp_")

\* updateWpConfig, lines 718-724: the salt block
PatchSalts(text, salts) ==
    IF ~HasAuthKey(text) THEN ReplaceMarker(text, salts \o <<Blank>>, <<>>) ELSE text

\* updateWpConfig, lines 726-766: the development settings
PatchDebug(text, debugOn) ==
    IF debugOn /\ Len(DebugSettings(text)) > 0
    THEN ReplaceMarker(text,
             <<Blank, Tok("comment", "", "", "// Development settings")>> \o DebugSettings(text) \o <<Blank>>,
             <<>>)
    ELSE text

\* updateWpConfig, lines 768-777: DISALLOW_FILE_EDIT
PatchSecurity(text, lockEditing) ==
    IF lockEditing /\ ~HasDefine(text, "DISALLOW_FILE_EDIT")
    THEN ReplaceMarker(text, <<Blank, DefRaw("DISALLOW_FILE_EDIT", "sp", "true"), Blank>>, <<>>)
    ELSE text

\* updateWpConfig, lines 779-788: WP_MEMORY_LIMIT
PatchMemory(text, limit) ==
    IF limit # "" /\ ~HasDefine(text, "WP_MEMORY_LIMIT")
    THEN ReplaceMarker(text, <<Blank, Def("WP_MEMORY_LIMIT", "sp", limit), Blank>>, <<>>)
    ELSE text

\* updateWpConfig, lines 790-797: the custom lines, inserted without a presence check
PatchCustom(text, custom) ==
    IF Len(custom) > 0
    THEN ReplaceMarker(text, <<Blank>> \o custom \o <<Blank>>, <<>>)
    ELSE text

\* updateWpConfig, lines 799-805: the bootstrap call
PatchBootstrap(text) ==
    IF ~HasReqParen(text)
    THEN ReplaceMarker(text, <<Blank>>, <<Blank, ReqParen>>)
    ELSE text

\* updateWpConfig: the text written back for the text read
Patch(text, u, pw, salts, debugOn, lockEditing, limit, custom) ==
    LET t1 == PatchConnection(text, u, pw)
        t2 == PatchSalts(t1, salts)
        t3 == PatchDebug(t2, debugOn)
        t4 == PatchSecurity(t3, lockEditing)
        t5 == PatchMemory(t4, limit)
        t6 == PatchCustom(t5, custom)
    IN  PatchBootstrap(t6)

\* number of consecutive runs of updateWpConfig on the same file
MaxPatchRuns == 2
\* largest number of lines in config.custom.wpConfig
MaxCustom == 2

\* the candidate values of config.custom.wpConfig: lists of distinct lines
CustomLists == {[j \in 1..n |-> Tok("custom", "", "", <<"custom", j>>)] : n \in 0..MaxCustom}

\* input texts: one choice per section, concatenated in file order
InputTexts ==
    LET DbSections ==
            { <<>>,
              <<Def("DB_NAME", "sp", "database_name_here"), Def("DB_USER", "sp", "username_here"),
                Def("DB_PASSWORD", "sp", "password_here"), Def("DB_HOST", "sp", "localhost"),
                Def("DB_CHARSET", "sp", "utf8"), Def("DB_COLLATE", "sp", "")>>,
              <<Def("DB_NAME", "tight", "old"), Def("DB_HOST", "dq", "old"),
                Def("DB_NAME", "sp", "second")>> }
        PrefixSections ==
            { <<>>, <<Tok("var", "$table_prefix", "", "wp_old")>>,
              <<Def("$table_prefix", "sp", "wp_old")>> }
        SaltSections ==
            { <<>>,
              [j \in 1..Len(SaltKeys) |-> Def(SaltKeys[j], "sp", "put your unique phrase here")],
              <<Tok("comment", "AUTH_KEY", "", "* Authentication unique keys and salts.")>> }
        DebugSections ==
            { <<>>,
              <<DefRaw("WP_DEBUG", "sp", "false")>>,
              <<DefRaw("WP_DEBUG_LOG", "tight", "true"),
                DefRaw("DISALLOW_FILE_EDIT", "dq", "true")>> }
        MarkerSections ==
            { <<>>, <<Marker("Happy publishing. */")>>, <<Marker("Happy blogging. */")>> }
        TailSections ==
            { <<>>,
              <<Blank, Tok("other", "", "", "ABSPATH"), Blank,
                Tok("req", "wp-settings.php", "bare", "")>>,
              <<ReqParen>>,
              <<Tok("other", "", "", "ABSPATH"), ReqParen>> }
    IN  { d \o p \o s \o g \o m \o t :
            d \in DbSections, p \in PrefixSections, s \in SaltSections,
            g \in DebugSections, m \in MarkerSections, t \in TailSections }

InitPatch ==
    /\ wpConfigExists = FALSE
    /\ wpConfig \in InputTexts
    /\ enableDebug \in BOOLEAN
    /\ disableFileEditing \in BOOLEAN
    /\ memoryLimit \in {"", MemoryLimit}
    /\ customWpConfig \in CustomLists
    \* root mode, or a dedicated user with either generated password
    /\ thisDbPassword \in {"", ScopedPassword, DollarPassword}
    /\ thisDbUser = IF thisDbPassword = "" THEN "" ELSE ScopedUser
    /\ serverUserPw = thisDbPassword
    /\ stage = "updateWpConfig"
    /\ ops = <<>>
    /\ patchRuns = 0
    /\ patchIn = <<>>
    /\ firstOut = <<>>
    /\ lastSalts = <<>>
    /\ IdleDocker /\ IdleSR /\ IdleAdmin /\ IdleRun

\* updateWpConfig: copy the sample if the file is missing, read, patch, write back.
\* Each run draws fresh secret material, from the remote service or locally.
UpdateWpConfig ==
    /\ stage = "updateWpConfig"
    /\ \E remoteOk \in BOOLEAN, ioOk \in BOOLEAN :
         LET salts == GenerateSalts(remoteOk, patchRuns + 1)
             out == Patch(wpConfig, thisDbUser, thisDbPassword, salts,
                          enableDebug, disableFileEditing, memoryLimit, customWpConfig)
             \* the subject records where the secret material came from
         IN  /\ ops' = Logged(Op(stage, "write wp-config.php",
                                 <<IF remoteOk THEN "remote" ELSE "local">>, "", "", ioOk),
                              ~ioOk)
             /\ stage' = IF ioOk THEN "afterUpdateWpConfig" ELSE Raise(stage)
             /\ lastSalts' = salts
             /\ wpConfig' = IF ioOk THEN out ELSE wpConfig
             /\ wpConfigExists' = (wpConfigExists \/ ioOk)
             /\ patchRuns' = IF ioOk THEN patchRuns + 1 ELSE patchRuns
             /\ patchIn' = IF ioOk /\ patchRuns = 0 THEN wpConfig ELSE patchIn
             /\ firstOut' = IF ioOk /\ patchRuns = 0 THEN out ELSE firstOut
    /\ UNCHANGED <<enableDebug, disableFileEditing, memoryLimit, customWpConfig>>
    /\ UNCHANGED <<serverUserPw, thisDbUser, thisDbPassword, dockerVars, srVars, adminVars, runVars>>

\* the patcher is run again on the file it has just written
PatchAgain ==
    /\ stage = "afterUpdateWpConfig"
    /\ patchRuns < MaxPatchRuns
    /\ stage' = "updateWpConfig"
    /\ UNCHANGED <<serverUserPw, thisDbUser, thisDbPassword, ops, dockerVars, patchVars, srVars,
                    adminVars, runVars>>

NextPatch == UpdateWpConfig \/ PatchAgain

SpecPatch == InitPatch /\ [][NextPatch]_vars

\* C15: for each of DB_NAME, DB_USER, DB_PASSWORD, DB_HOST, DB_CHARSET and
\* DB_COLLATE: if the text read has a define() of the key with a quoted
\* value, the text written has, at the position of the first such define, the
\* define of the key with the configured value; if the text read has none,
\* the text written has none.
Cex_C15_ConnectionKeysPatched ==
    LET Configured ==
            [k \in {"DB_NAME", "DB_USER", "DB_PASSWORD", "DB_HOST", "DB_CHARSET", "DB_COLLATE"} |->
                CASE k = "DB_NAME" -> "wp_site"
                  [] k = "DB_USER" -> EffectiveUser(thisDbUser)
                  [] k = "DB_PASSWORD" -> EffectivePassword(thisDbPassword)
                  [] k = "DB_HOST" -> "localhost:3306"
                  [] k = "DB_CHARSET" -> "utf8mb4"
                  [] k = "DB_COLLATE" -> "utf8mb4_unicode_ci"]
        Defines(text, k) == {i \in 1..Len(text) : text[i].t = "def" /\ text[i].k = k}
    IN  patchRuns = 1 =>
            \A k \in DOMAIN Configured :
                IF Defines(patchIn, k) = {}
                THEN Defines(firstOut, k) = {}
                ELSE LET j == First(Defines(patchIn, k))
                     IN  /\ j <= Len(firstOut)
                         /\ firstOut[j].t = "def" /\ firstOut[j].k = k
                         /\ firstOut[j].v = Configured[k]

\* C16: the table prefix is patched like the connection parameters.  Every
\* assignment of the table prefix in the text read, the variable assignment
\* $table_prefix = '...'; included, carries the configured prefix in the
\* text written.
Cex_C16_TablePrefixPatched ==
    patchRuns = 1 =>
        \A j \in 1..Len(patchIn) :
            (patchIn[j].t \in {"var", "def"} /\ patchIn[j].k = "$table_prefix") =>
                /\ j <= Len(firstOut)
                /\ firstOut[j].k = "$table_prefix"
                /\ firstOut[j].v = "wp_"

\* C17: when the text read holds the trailing marker, the text written holds
\* the marker exactly once and, for each enabled additive setting
\* (WP_DEBUG_LOG, WP_DEBUG_DISPLAY, SCRIPT_DEBUG, SAVEQUERIES when debugging
\* is enabled, DISALLOW_FILE_EDIT, WP_MEMORY_LIMIT, and the eight secret keys
\* when the text read defines none of them), exactly one define, standing
\* before the marker.
Cex_C17_AdditiveSettingsOnce ==
    LET Defines(text, k) == {i \in 1..Len(text) : text[i].t \in {"def", "defraw"} /\ text[i].k = k}
        Markers(text) == {i \in 1..Len(text) : text[i].t = "marker"}
        Secrets == {SaltKeys[j] : j \in 1..Len(SaltKeys)}
        Enabled ==
            (IF enableDebug
             THEN {"WP_DEBUG_LOG", "WP_DEBUG_DISPLAY", "SCRIPT_DEBUG", "SAVEQUERIES"} ELSE {})
            \cup (IF disableFileEditing THEN {"DISALLOW_FILE_EDIT"} ELSE {})
            \cup (IF memoryLimit # "" THEN {"WP_MEMORY_LIMIT"} ELSE {})
            \cup (IF \A k \in Secrets : Defines(patchIn, k) = {} THEN Secrets ELSE {})
    IN  (patchRuns = 1 /\ Markers(patchIn) # {}) =>
            /\ Cardinality(Markers(firstOut)) = 1
            /\ \A k \in Enabled :
                  /\ Cardinality(Defines(firstOut, k)) = 1
                  /\ \A i \in Defines(firstOut, k) : \A m \in Markers(firstOut) : i < m

\* C18: when the remote secret-generation call fails, generateSalts raises
\* nothing (the patch goes on to write the file) and returns, besides an
\* empty line, exactly eight assignments: one define( 'KEY', 'value' ) for
\* each of the eight keys, in the order and with the keys of the remote
\* result, each value 64 characters of the alphabet.
Thm_C18_LocalSalts ==
    LET writes == {j \in 1..Len(ops) : ops[j].cmd = "write wp-config.php"}
        last == CHOOSE j \in writes : \A k \in writes : k <= j
        IsDef(tok) == tok.t = "def"
        defs == SelectSeq(lastSalts, IsDef)
        remote == SelectSeq(GenerateSalts(TRUE, 1), IsDef)
        Alphabet == {"a", "b", "z", "A", "Z", "0", "9", "!", "@", "#", "$", "%", "^", "&",
                     "*", "(", ")"}
    IN  (writes # {} /\ ops[last].arg = <<"local">>) =>
            /\ (ops[last].ok => (last = Len(ops) \/ ops[last + 1].cmd # "throw"))
            /\ Len(defs) = 8
            /\ Len(lastSalts) = 9 /\ lastSalts[1].t = "blank"
            /\ \A j \in 1..Len(defs) :
                  /\ defs[j].k = SaltKeys[j]
                  /\ defs[j].f = "sp"
                  /\ Len(defs[j].v) = 64
                  /\ \A i \in 1..Len(defs[j].v) : defs[j].v[i] \in Alphabet
            /\ [j \in 1..Len(defs) |-> defs[j].k] = [j \in 1..Len(remote) |-> remote[j].k]
Wit_C18_LocalSaltsWritten ==
    /\ patchRuns = 1 /\ stage = "afterUpdateWpConfig"
    /\ ops[Len(ops)].cmd = "write wp-config.php" /\ ops[Len(ops)].arg = <<"local">>
    /\ Len(lastSalts) = 9 /\ lastSalts[2].k = "AUTH_KEY" /\ lastSalts[2].f = "sp"

\* C1: patching is idempotent.  A second run of updateWpConfig on its own
\* output with the same parameters writes the same text, and no custom line
\* occurs more often than after the first run.
Cex_C1_PatchIdempotent ==
    LET CustomLines(text) == {j \in 1..Len(text) : text[j].t = "custom"}
    IN  patchRuns >= 2 =>
            /\ wpConfig = firstOut
            /\ Cardinality(CustomLines(wpConfig)) <= Cardinality(CustomLines(firstOut))

----------------------------------------------------------------------------
(* Content migration: performSearchReplace and performDirectSearchReplace   *)
(*                                                                          *)
(* Stored text and search/replace texts are sequences of symbols:           *)
(* "h" the scheme http://, "o" the old domain, "n" the new domain           *)
(* (websiteName + valet.domain), anything else plain text.                  *)

\* newUrl = `http://${websiteName}${valet.domain}`, newDomain without scheme
NewUrl == <<"h", "n">>
NewDomain == <<"n">>

\* the tables of the imported dump, in SHOW TABLES order, and their text columns
TableNames == <<"wp_comments", "wp_options", "wp_postmeta", "wp_posts">>
Columns(table) ==
    CASE table = "wp_options" -> {"option_name", "option_value"}
      [] table = "wp_posts" -> {"post_content", "post_excerpt", "post_title", "guid"}
      [] table = "wp_comments" -> {"comment_author_url", "comment_content"}
      [] table = "wp_postmeta" -> {"meta_key", "meta_value"}

\* SHOW TABLES: the tables of the database, in name order
ShowTables(d) == SelectSeq(TableNames, LAMBDA t : t \in DOMAIN d)

\* const commonColumns = [...] of performDirectSearchReplace
CommonColumns == <<"post_content", "post_excerpt", "post_title", "comment_content", "meta_value">>

\* the server accepts root with the root password and the scoped user with
\* the password it holds for that user
AuthOk(u, pw) ==
    \/ u = RootUser /\ pw = RootPassword
    \/ u = ScopedUser /\ serverUserPw # "" /\ pw = serverUserPw

\* SQL REPLACE(text, search, replace): every occurrence, left to right
RECURSIVE SqlReplace(_, _, _)
SqlReplace(text, search, replace) ==
    IF Len(search) = 0 \/ Len(text) < Len(search) THEN text
    ELSE IF SubSeq(text, 1, Len(search)) = search
         THEN replace \o SqlReplace(SubSeq(text, Len(search) + 1, Len(text)), search, replace)
         ELSE <<Head(text)>> \o SqlReplace(Tail(text), search, replace)

\* UPDATE table SET col = REPLACE(col, search, replace) WHERE col LIKE '%search%'
UpdateColumn(d, table, col, search, replace) ==
    [d EXCEPT ![table][col] = SqlReplace(d[table][col], search, replace)]

\* wp search-replace --all-tables: every text column of every table
SearchReplaceAllTables(d, search, replace) ==
    [t \in DOMAIN d |-> [c \in DOMAIN d[t] |-> SqlReplace(d[t][c], search, replace)]]

\* the replacement rules in the order performSearchReplace takes them.
\* Mutated to take the user-supplied rules before the URL and domain rules.
Rule(kind, search, replace) == [kind |-> kind, search |-> search, replace |-> replace]
Rules_m ==
    additionalReplacements
    \o <<Rule("url", oldUrl, NewUrl), Rule("domain", oldDomain, NewDomain)>>
Rules ==
    <<Rule("url", oldUrl, NewUrl), Rule("domain", oldDomain, NewDomain)>>
    \o additionalReplacements

\* whether performSearchReplace executes the rule: the URL and domain blocks
\* compare old and new (lines 927, 947), the additional loop does not (965)
RuleExecuted(rule) ==
    IF rule.kind \in {"url", "domain"} THEN rule.search # rule.replace ELSE TRUE

\* const dbUser / dbPassword of performDirectSearchReplace (lines 992-993):
\* the password is read from the configuration, not from this.dbPassword
DirectUser == EffectiveUser(thisDbUser)
DirectPassword == RootPassword

SRFrame ==
    UNCHANGED <<skipSearchReplace, srEnabled, srDryRun, oldUrl, oldDomain,
                additionalReplacements, serverUserPw, thisDbUser, thisDbPassword,
                dockerVars, patchVars, adminVars, runVars>>

\* performSearchReplace, lines 910-918: the two early returns
SREntry ==
    /\ stage = "performSearchReplace"
    /\ srpc = "entry"
    /\ IF skipSearchReplace \/ ~srEnabled
       THEN /\ srpc' = "done"
            /\ stage' = "manageAdminUser"
       ELSE /\ srpc' = "rule"
            /\ stage' = stage
    /\ srIdx' = 1
    /\ UNCHANGED <<db, srBefore, srTables, srTable, srCol, srRaw, ops>>
    /\ SRFrame

\* a rule whose block is guarded by old !== new and whose texts are equal
SRSkipRule ==
    /\ stage = "performSearchReplace"
    /\ srpc = "rule"
    /\ srIdx <= Len(Rules)
    /\ ~RuleExecuted(Rules[srIdx])
    /\ srIdx' = srIdx + 1
    /\ UNCHANGED <<db, srpc, srBefore, srTables, srTable, srCol, srRaw, ops, stage>>
    /\ SRFrame

\* performSearchReplace, lines 934-940: the catch block of the primary
\* invocation calls performDirectSearchReplace.  Mutated to run the raw
\* strategy whatever the primary invocation returned.
AfterPrimary_m(ok) == "showTables"
AfterPrimary(ok) == IF ok THEN "rule" ELSE "showTables"

\* the primary strategy: wp search-replace ... --all-tables [--dry-run];
\* on failure the catch block calls performDirectSearchReplace
SRPrimary ==
    /\ stage = "performSearchReplace"
    /\ srpc = "rule"
    /\ srIdx <= Len(Rules)
    /\ RuleExecuted(Rules[srIdx])
    /\ srBefore' = db
    /\ \E ok \in BOOLEAN :
         /\ ops' = Append(ops, Op(stage, "wp search-replace", <<srIdx>>, "", "", ok))
         /\ db' = IF ok /\ ~srDryRun
                  THEN SearchReplaceAllTables(db, Rules[srIdx].search, Rules[srIdx].replace)
                  ELSE db
         /\ srpc' = AfterPrimary(ok)
         /\ srIdx' = IF AfterPrimary(ok) = "rule" THEN srIdx + 1 ELSE srIdx
    /\ UNCHANGED <<srTables, srTable, srCol, srRaw, stage>>
    /\ SRFrame

\* performDirectSearchReplace: SHOW TABLES; a failure is caught by the outer
\* catch, which only warns
DirectShowTables ==
    /\ stage = "performSearchReplace"
    /\ srpc = "showTables"
    /\ LET ok == AuthOk(DirectUser, DirectPassword)
       IN  /\ ops' = Append(ops, Op(stage, "SHOW TABLES", <<srIdx>>, DirectUser, DirectPassword, ok))
           /\ IF ok
              THEN /\ srTables' = ShowTables(db)
                   /\ srTable' = 1
                   /\ srpc' = "update"
                   /\ srIdx' = srIdx
              ELSE /\ srTables' = <<>>
                   /\ srTable' = 1
                   /\ srpc' = "rule"
                   /\ srIdx' = srIdx + 1
    /\ UNCHANGED <<db, srBefore, srCol, srRaw, stage>>
    /\ SRFrame

\* performDirectSearchReplace, lines 1016-1020: the candidate columns are
\* tried in the catch block of the option_value update.  Mutated to try them
\* after every option_value update.
AfterOptionValue_m(ok) == "column"
AfterOptionValue(ok) == IF ok THEN "update" ELSE "column"

\* performDirectSearchReplace: UPDATE ... SET option_value = REPLACE(...) on
\* the next table; if it fails the candidate columns are tried
DirectUpdateOptionValue ==
    /\ stage = "performSearchReplace"
    /\ srpc = "update"
    /\ srTable <= Len(srTables)
    /\ LET table == srTables[srTable]
           ok == AuthOk(DirectUser, DirectPassword) /\ "option_value" \in Columns(table)
       IN  /\ ops' = Append(ops, Op(stage, "UPDATE", <<srIdx, table, "option_value">>,
                                    DirectUser, DirectPassword, ok))
           /\ db' = IF ok THEN UpdateColumn(db, table, "option_value",
                                            Rules[srIdx].search, Rules[srIdx].replace)
                    ELSE db
           /\ srpc' = AfterOptionValue(ok)
           /\ srTable' = IF AfterOptionValue(ok) = "update" THEN srTable + 1 ELSE srTable
    /\ srCol' = 1
    /\ UNCHANGED <<srIdx, srBefore, srTables, srRaw, stage>>
    /\ SRFrame

\* performDirectSearchReplace: the same UPDATE on the next candidate column;
\* a failure is swallowed
DirectUpdateColumn ==
    /\ stage = "performSearchReplace"
    /\ srpc = "column"
    /\ srCol <= Len(CommonColumns)
    /\ LET table == srTables[srTable]
           col == CommonColumns[srCol]
           ok == AuthOk(DirectUser, DirectPassword) /\ col \in Columns(table)
       IN  /\ ops' = Append(ops, Op(stage, "UPDATE", <<srIdx, table, col>>,
                                    DirectUser, DirectPassword, ok))
           /\ db' = IF ok THEN UpdateColumn(db, table, col,
                                            Rules[srIdx].search, Rules[srIdx].replace)
                    ELSE db
    /\ srCol' = srCol + 1
    /\ UNCHANGED <<srpc, srIdx, srBefore, srTables, srTable, srRaw, stage>>
    /\ SRFrame

\* performDirectSearchReplace: candidate columns exhausted, next table
DirectNextTable ==
    /\ stage = "performSearchReplace"
    /\ srpc = "column"
    /\ srCol > Len(CommonColumns)
    /\ srTable' = srTable + 1
    /\ srpc' = "update"
    /\ UNCHANGED <<db, srIdx, srBefore, srTables, srCol, srRaw, ops, stage>>
    /\ SRFrame

\* performDirectSearchReplace returns: all tables swept
DirectReturn ==
    /\ stage = "performSearchReplace"
    /\ srpc = "update"
    /\ srTable > Len(srTables)
    /\ srRaw' = srRaw \cup {srIdx}
    /\ srIdx' = srIdx + 1
    /\ srpc' = "rule"
    /\ UNCHANGED <<db, srBefore, srTables, srTable, srCol, ops, stage>>
    /\ SRFrame

\* performSearchReplace returns: all rules processed
SRReturn ==
    /\ stage = "performSearchReplace"
    /\ srpc = "rule"
    /\ srIdx > Len(Rules)
    /\ srpc' = "done"
    /\ stage' = "manageAdminUser"
    /\ UNCHANGED <<db, srIdx, srBefore, srTables, srTable, srCol, srRaw, ops>>
    /\ SRFrame

NextSR ==
    \/ SREntry
    \/ SRSkipRule
    \/ SRPrimary
    \/ DirectShowTables
    \/ DirectUpdateOptionValue
    \/ DirectUpdateColumn
    \/ DirectNextTable
    \/ DirectReturn
    \/ SRReturn

\* largest number of entries in additionalReplacements
MaxAdditional == 2

\* candidate values of additionalReplacements: the rules taken in this order
AdditionalLists ==
    LET AdditionalRule(j) ==
            IF j % 2 = 1 THEN Rule("additional", <<"x">>, <<"x">>)
            ELSE Rule("additional", <<"x">>, <<"y", "y">>)
    IN  {[j \in 1..n |-> AdditionalRule(j)] : n \in 0..MaxAdditional}

\* stored texts of the imported dump
StoredTexts == { <<"h", "o">>, <<"o", "x", "h", "o", "/", "x">>, <<"x", "n">> }

InitSR ==
    /\ skipSearchReplace \in BOOLEAN
    /\ srEnabled \in BOOLEAN
    /\ srDryRun \in BOOLEAN
    /\ oldUrl \in {<<"h", "o">>, NewUrl}
    /\ oldDomain \in {<<"o">>, NewDomain}
    /\ additionalReplacements \in AdditionalLists
    /\ \E text \in StoredTexts :
         db = [t \in {TableNames[j] : j \in 1..Len(TableNames)} |-> [c \in Columns(t) |-> text]]
    /\ \E scoped \in BOOLEAN :
         /\ thisDbUser = IF scoped THEN ScopedUser ELSE ""
         /\ thisDbPassword = IF scoped THEN ScopedPassword ELSE ""
         /\ serverUserPw = IF scoped THEN ScopedPassword ELSE ""
    /\ stage = "performSearchReplace"
    /\ ops = <<>>
    /\ srpc = "entry"
    /\ srIdx = 1
    /\ srBefore = db
    /\ srTables = <<>>
    /\ srTable = 1
    /\ srCol = 1
    /\ srRaw = {}
    /\ IdleDocker /\ IdlePatch /\ IdleAdmin /\ IdleRun

SpecSR == InitSR /\ [][NextSR]_vars

\* C2: no-op law.  No command, neither the administration tool's
\* search-replace nor a raw SQL statement, is issued for a rule whose search
\* text equals its replace text.
Cex_C2_NoOpLaw ==
    \A j \in 1..Len(ops) :
        ops[j].stage = "performSearchReplace" =>
            Rules[ops[j].arg[1]].search # Rules[ops[j].arg[1]].replace

\* C7: fallback correctness.  When the primary invocation for a rule has
\* failed and the raw strategy has been run for it, every option_value and
\* candidate column of every table holds the text it held before the rule
\* with every occurrence of the search text replaced.
Cex_C7_FallbackCorrect ==
    LET TargetColumns == {"option_value"} \cup {CommonColumns[j] : j \in 1..Len(CommonColumns)}
    IN
    (srpc = "rule" /\ srIdx > 1 /\ ops # <<>> /\ ops[Len(ops)].arg[1] = srIdx - 1
        /\ \E j \in 1..Len(ops) :
              ops[j].cmd = "wp search-replace" /\ ops[j].arg[1] = srIdx - 1 /\ ~ops[j].ok)
    => \A t \in DOMAIN db : \A c \in DOMAIN db[t] \cap TargetColumns :
           db[t][c] = SqlReplace(srBefore[t][c], Rules[srIdx - 1].search, Rules[srIdx - 1].replace)

\* C24: for every rule that performSearchReplace executes, the primary
\* invocation is issued exactly once and before any other command of the
\* rule; the raw strategy is entered (its SHOW TABLES is the next command) if
\* and only if that invocation failed, at most once, and every command of a
\* rule precedes the primary invocation of any later rule.
Thm_C24_PrimaryThenFallback ==
    LET Of(r) == {j \in 1..Len(ops) : ops[j].arg[1] = r}
        Prim(r) == {j \in Of(r) : ops[j].cmd = "wp search-replace"}
        Raw(r) == {j \in Of(r) : ops[j].cmd = "SHOW TABLES"}
    IN  \A r \in 1..Len(Rules) :
          /\ Cardinality(Prim(r)) <= 1 /\ Cardinality(Raw(r)) <= 1
          /\ Of(r) # {} => (RuleExecuted(Rules[r]) /\ Prim(r) # {})
          /\ (srIdx > r /\ RuleExecuted(Rules[r])) => Prim(r) # {}
          /\ \A p \in Prim(r) :
                /\ \A j \in Of(r) : p <= j
                /\ ops[p].ok => Of(r) = {p}
                /\ ~ops[p].ok =>
                      IF p = Len(ops) THEN srpc = "showTables" /\ srIdx = r
                      ELSE Raw(r) = {p + 1}
          /\ \A r2 \in (r + 1)..Len(Rules) : \A q \in Prim(r2) : \A j \in Of(r) : j < q
Wit_C24_FallbackBetweenRules ==
    /\ srpc = "done" /\ 1 \in srRaw /\ 2 \notin srRaw
    /\ \E j \in 1..Len(ops) : ops[j].cmd = "wp search-replace" /\ ops[j].arg[1] = 2 /\ ops[j].ok

\* C25: the commands are issued rule by rule in the order URL rule, domain
\* rule, then the entries of additionalReplacements in list order: the rule
\* a command belongs to never precedes, in that order, the rule of an
\* earlier command.
Thm_C25_RuleOrder ==
    LET KindRank(kind) == CASE kind = "url" -> 1 [] kind = "domain" -> 2 [] OTHER -> 3
        RuleOf(j) == Rules[ops[j].arg[1]]
        \* the place of the command's rule in additionalReplacements
        ListIndex(j) == Cardinality({i \in 1..ops[j].arg[1] : Rules[i].kind = "additional"})
    IN  \* each command against the one issued right after it
        \A j \in 1..Len(ops) :
          /\ RuleOf(j).kind = "additional" => RuleOf(j) = additionalReplacements[ListIndex(j)]
          /\ j < Len(ops) =>
                /\ KindRank(RuleOf(j).kind) <= KindRank(RuleOf(j + 1).kind)
                /\ (RuleOf(j).kind = "additional" /\ RuleOf(j + 1).kind = "additional")
                      => ListIndex(j) <= ListIndex(j + 1)
Wit_C25_AllRulesRan ==
    /\ srpc = "done" /\ Len(additionalReplacements) = 2
    /\ \A r \in 1..4 : \E j \in 1..Len(ops) : ops[j].arg[1] = r
    /\ srRaw = {1, 3}

\* C26: in a raw sweep the tables are taken in the order SHOW TABLES
\* returned them; for each table the option_value update comes first, the
\* five candidate columns follow, in list order and once each, exactly when
\* that update failed, and whatever a column update returns the next column
\* or the next table is attempted.  Nothing is raised and no transaction
\* statement is issued; a failing update leaves the database as the earlier
\* updates made it.
Thm_C26_RawSweep ==
    /\ [](LET tables == ShowTables(db)
              Idx(t) == CHOOSE i \in 1..Len(tables) : tables[i] = t
              Col(c) == CHOOSE k \in 1..Len(CommonColumns) : CommonColumns[k] = c
              IsUpdate(j) == ops[j].cmd = "UPDATE"
          IN
          \A j \in 1..Len(ops) :
            /\ ops[j].cmd \in {"wp search-replace", "SHOW TABLES", "UPDATE"}
            /\ IsUpdate(j) =>
                  LET r == ops[j].arg[1]
                      t == ops[j].arg[2]
                      c == ops[j].arg[3]
                  IN  /\ j > 1 /\ ops[j - 1].arg[1] = r
                      \* what precedes the update
                      /\ IF c = "option_value"
                         THEN \/ ops[j - 1].cmd = "SHOW TABLES" /\ ops[j - 1].ok /\ Idx(t) = 1
                              \/ /\ IsUpdate(j - 1)
                                 /\ Idx(t) = Idx(ops[j - 1].arg[2]) + 1
                                 /\ \/ ops[j - 1].arg[3] = "option_value" /\ ops[j - 1].ok
                                    \/ ops[j - 1].arg[3] = CommonColumns[Len(CommonColumns)]
                         ELSE /\ IsUpdate(j - 1) /\ ops[j - 1].arg[2] = t
                              /\ IF Col(c) = 1
                                 THEN ops[j - 1].arg[3] = "option_value" /\ ~ops[j - 1].ok
                                 ELSE ops[j - 1].arg[3] = CommonColumns[Col(c) - 1]
                      \* what follows it
                      /\ j < Len(ops) =>
                            IF c = "option_value" /\ ~ops[j].ok
                            THEN IsUpdate(j + 1) /\ ops[j + 1].arg = <<r, t, CommonColumns[1]>>
                            ELSE IF c # "option_value" /\ Col(c) < Len(CommonColumns)
                            THEN IsUpdate(j + 1) /\ ops[j + 1].arg = <<r, t, CommonColumns[Col(c) + 1]>>
                            ELSE IF Idx(t) < Len(tables)
                            THEN IsUpdate(j + 1)
                                 /\ ops[j + 1].arg = <<r, tables[Idx(t) + 1], "option_value">>
                            ELSE ops[j + 1].cmd = "wp search-replace")
    /\ [](\A r \in srRaw : \A i \in 1..Len(ShowTables(db)) :
            \E j \in 1..Len(ops) :
                ops[j].cmd = "UPDATE" /\ ops[j].arg = <<r, ShowTables(db)[i], "option_value">>)
    /\ [][(Len(ops') = Len(ops) + 1 /\ ops'[Len(ops')].cmd = "UPDATE"
            /\ ~ops'[Len(ops')].ok) => (db' = db /\ stage' = stage)]_vars
Wit_C26_SweepPastFailures ==
    /\ 1 \in srRaw
    /\ \E j \in 1..Len(ops) :
          /\ ops[j].cmd = "UPDATE" /\ ~ops[j].ok
          /\ ops[j].arg = <<1, "wp_comments", "post_content">>
    /\ \E j \in 1..Len(ops) :
          /\ ops[j].cmd = "UPDATE" /\ ops[j].ok
          /\ ops[j].arg = <<1, "wp_posts", "post_title">>
    /\ db["wp_options"]["option_value"] # db["wp_options"]["option_name"]

----------------------------------------------------------------------------
(* Admin identity: manageAdminUser, checkAdminUserExists,                   *)
(* updateAdminUserPassword, createAdminUser, hashWordPressPassword          *)

\* config.wordpress.adminUser, this.adminPassword (createDefaultConfig)
AdminUser == "admin"
AdminPassword == "admin123"

UserRow(id, login, pass) == [ID |-> id, user_login |-> login, user_pass |-> pass]
MetaRow(id, key, value) == [user_id |-> id, meta_key |-> key, meta_value |-> value]

\* rows whose login is the configured admin login
AdminRows == {j \in 1..Len(users) : users[j].user_login = AdminUser}

\* AUTO_INCREMENT of the users table
NextId == IF users = <<>> THEN 1 ELSE users[Len(users)].ID + 1

\* hashWordPressPassword: the tool's portable hash of the password, or
\* '$P$B' followed by the md5 hex digest when the tool fails.  A hash is a
\* sequence of text segments.
HashWordPressPassword(password, toolOk) ==
    IF toolOk THEN <<"$P$B", "phpass", password>> ELSE <<"$P$B", "md5", password>>

\* execSync(command): the command string is run by sh -c, and the statement
\* stands inside a double-quoted argument (-e "... '${hashedPassword}' ..."),
\* where the shell expands $NAME; the segment introduced by $ is lost
ShellDoubleQuoted(text) == SelectSeq(text, LAMBDA seg : seg # "$P$B")

\* the credentials of the admin statements:
\* this.dbUser || config.database.user, this.dbPassword || config.database.password
AdminDbUser == EffectiveUser(thisDbUser)
AdminDbPassword == EffectivePassword(thisDbPassword)

AdminFrame ==
    UNCHANGED <<sqlSource, serverUserPw, thisDbUser, thisDbPassword, dockerVars, patchVars, srVars,
                runVars>>

\* manageAdminUser, lines 1167-1170: nothing to do without an imported dump
AdminEntry ==
    /\ stage = "manageAdminUser"
    /\ apc = "entry"
    /\ IF sqlSource = ""
       THEN apc' = "done" /\ stage' = "afterManageAdminUser"
       ELSE apc' = "check" /\ stage' = stage
    /\ UNCHANGED <<users, usermeta, apath, hashedPassword, userId, ops>>
    /\ AdminFrame

\* the value checkAdminUserExists returns: count > 0 from the output of the
\* query (lines 1056-1060), false from the catch (line 1067).  Mutated to a
\* check that answers from the table even when its query failed.
AdminUserExists_m(ok, count) == count > 0
AdminUserExists(ok, count) == ok /\ count > 0

\* checkAdminUserExists: SELECT COUNT(*) ... WHERE user_login = adminUser;
\* a failing query is caught and reads as "absent" (lines 1063-1068)
CheckAdminUserExists ==
    /\ stage = "manageAdminUser"
    /\ apc = "check"
    /\ \E envOk \in BOOLEAN :
         LET ok == envOk /\ AuthOk(AdminDbUser, AdminDbPassword)
             count == Cardinality(AdminRows)
         IN  /\ ops' = Append(ops, Op(stage, "SELECT COUNT", <<>>, AdminDbUser, AdminDbPassword, ok))
             /\ apath' = IF AdminUserExists(ok, count) THEN "update" ELSE "create"
    /\ apc' = "hash"
    /\ stage' = stage
    /\ UNCHANGED <<users, usermeta, hashedPassword, userId>>
    /\ AdminFrame

\* hashWordPressPassword: wp eval "echo wp_hash_password(...)", with the md5 fallback
HashPassword ==
    /\ stage = "manageAdminUser"
    /\ apc = "hash"
    /\ \E toolOk \in BOOLEAN :
         /\ ops' = Append(ops, Op(stage, "wp eval wp_hash_password", <<>>, "", "", toolOk))
         /\ hashedPassword' = HashWordPressPassword(AdminPassword, toolOk)
    /\ apc' = IF apath = "update" THEN "update" ELSE "insert"
    /\ UNCHANGED <<users, usermeta, apath, userId, stage>>
    /\ AdminFrame

\* updateAdminUserPassword: UPDATE users SET user_pass = ... WHERE user_login = adminUser
UpdateAdminUserPassword ==
    /\ stage = "manageAdminUser"
    /\ apc = "update"
    /\ \E envOk \in BOOLEAN :
         LET ok == envOk /\ AuthOk(AdminDbUser, AdminDbPassword)
         IN  /\ ops' = Logged(Op(stage, "UPDATE users", <<>>, AdminDbUser, AdminDbPassword, ok), ~ok)
             /\ users' = IF ok
                         THEN [j \in 1..Len(users) |->
                                  IF users[j].user_login = AdminUser
                                  THEN [users[j] EXCEPT
                                           !.user_pass = ShellDoubleQuoted(hashedPassword)]
                                  ELSE users[j]]
                         ELSE users
             /\ apc' = IF ok THEN "done" ELSE "failed"
             /\ stage' = IF ok THEN "afterManageAdminUser" ELSE Raise(stage)
    /\ UNCHANGED <<usermeta, apath, hashedPassword, userId>>
    /\ AdminFrame

\* createAdminUser: INSERT INTO users (...); the login column is not unique
InsertAdminUser ==
    /\ stage = "manageAdminUser"
    /\ apc = "insert"
    /\ \E envOk \in BOOLEAN :
         LET ok == envOk /\ AuthOk(AdminDbUser, AdminDbPassword)
         IN  /\ ops' = Logged(Op(stage, "INSERT users", <<>>, AdminDbUser, AdminDbPassword, ok), ~ok)
             /\ users' = IF ok
                         THEN Append(users, UserRow(NextId, AdminUser,
                                                    ShellDoubleQuoted(hashedPassword)))
                         ELSE users
             /\ apc' = IF ok THEN "lookup" ELSE "failed"
             /\ stage' = IF ok THEN stage ELSE Raise(stage)
    /\ UNCHANGED <<usermeta, apath, hashedPassword, userId>>
    /\ AdminFrame

\* createAdminUser, line 1132: if (userId).  Mutated to grant the capabilities
\* whatever the lookup returned.
HasUserId_m(id) == TRUE
HasUserId(id) == id # 0

\* createAdminUser: SELECT ID ... WHERE user_login = adminUser; the first line
\* of the output that is not the header is the identifier, and the output of
\* a successful command may hold no such line
LookupUserId ==
    /\ stage = "manageAdminUser"
    /\ apc = "lookup"
    /\ \E envOk \in BOOLEAN, listed \in BOOLEAN :
         LET ok == envOk /\ AuthOk(AdminDbUser, AdminDbPassword)
             found == IF AdminRows = {} \/ ~listed \/ ~ok THEN 0
                      ELSE users[CHOOSE j \in AdminRows : \A k \in AdminRows : j <= k].ID
         IN  /\ ops' = Logged(Op(stage, "SELECT ID", <<found>>, AdminDbUser, AdminDbPassword, ok), ~ok)
             /\ userId' = found
             /\ apc' = IF ~ok THEN "failed" ELSE IF HasUserId(found) THEN "caps" ELSE "done"
             /\ stage' = IF ~ok THEN Raise(stage)
                         ELSE IF HasUserId(found) THEN stage ELSE "afterManageAdminUser"
    /\ UNCHANGED <<users, usermeta, apath, hashedPassword>>
    /\ AdminFrame

\* createAdminUser: INSERT INTO usermeta the capabilities and the user level
InsertCapabilities ==
    /\ stage = "manageAdminUser"
    /\ apc = "caps"
    /\ \E envOk \in BOOLEAN :
         LET ok == envOk /\ AuthOk(AdminDbUser, AdminDbPassword)
         IN  /\ ops' = Logged(Op(stage, "INSERT usermeta", <<>>, AdminDbUser, AdminDbPassword, ok), ~ok)
             /\ usermeta' = IF ok
                            THEN usermeta \cup
                                 { MetaRow(userId, "wp_capabilities", "administrator"),
                                   MetaRow(userId, "wp_user_level", "10") }
                            ELSE usermeta
             /\ apc' = IF ok THEN "done" ELSE "failed"
             /\ stage' = IF ok THEN "afterManageAdminUser" ELSE Raise(stage)
    /\ UNCHANGED <<users, apath, hashedPassword, userId>>
    /\ AdminFrame

NextAdmin ==
    \/ AdminEntry
    \/ CheckAdminUserExists
    \/ HashPassword
    \/ UpdateAdminUserPassword
    \/ InsertAdminUser
    \/ LookupUserId
    \/ InsertCapabilities

\* largest number of rows of the imported dump carrying the admin login
MaxAdminRows == 2

\* the users tables an imported dump may contain: an optional other account
\* and 0..MaxAdminRows accounts with the admin login
DumpUsers ==
    { other \o [j \in 1..n |-> UserRow(Len(other) + j, AdminUser, <<"dump-hash", j>>)] :
        other \in {<<>>, <<UserRow(1, "editor", <<"dump-hash", 0>>)>>},
        n \in 0..MaxAdminRows }

\* the capability rows of the dump: none, or every account a subscriber
DumpMeta(rows) ==
    { {}, {MetaRow(rows[j].ID, "wp_capabilities", "subscriber") : j \in 1..Len(rows)} }

InitAdmin ==
    /\ sqlSource \in {"", "present"}
    /\ users \in DumpUsers
    /\ usermeta \in DumpMeta(users)
    /\ \E scoped \in BOOLEAN :
         /\ thisDbUser = IF scoped THEN ScopedUser ELSE ""
         /\ thisDbPassword = IF scoped THEN ScopedPassword ELSE ""
         /\ serverUserPw = IF scoped THEN ScopedPassword ELSE ""
    /\ stage = "manageAdminUser"
    /\ ops = <<>>
    /\ apc = "entry"
    /\ apath = ""
    /\ hashedPassword = <<>>
    /\ userId = 0
    /\ IdleDocker /\ IdlePatch /\ IdleSR /\ IdleRun

SpecAdmin == InitAdmin /\ [][NextAdmin]_vars

\* C4: reconciliation totality (row count).  Whenever manageAdminUser has
\* completed without error on an imported database, exactly one row of the
\* users table carries the configured admin login.
Cex_C4_ExactlyOneAdminRow ==
    (stage = "afterManageAdminUser" /\ apc = "done" /\ sqlSource # "") =>
        Cardinality(AdminRows) = 1

\* C28: a failing count query of checkAdminUserExists reads as "absent":
\* manageAdminUser takes the creation path (the hash, then the account
\* INSERT of createAdminUser), issues no UPDATE, and the failure of the query
\* itself raises nothing.
Thm_C28_FailOpenCheck ==
    \A j \in 1..Len(ops) :
        (ops[j].cmd = "SELECT COUNT" /\ ~ops[j].ok) =>
            /\ apath = "create"
            /\ apc \in {"hash", "insert", "lookup", "caps", "done", "failed"}
            /\ (apc = "hash" => stage = "manageAdminUser" /\ j = Len(ops))
            /\ (j < Len(ops) => ops[j + 1].cmd = "wp eval wp_hash_password")
            /\ (j + 1 < Len(ops) => ops[j + 2].cmd = "INSERT users")
            /\ \A k \in 1..Len(ops) : ops[k].cmd # "UPDATE users"
Wit_C28_CreatedAfterFailedCheck ==
    /\ stage = "afterManageAdminUser" /\ apath = "create"
    /\ \E j \in 1..Len(ops) : ops[j].cmd = "SELECT COUNT" /\ ~ops[j].ok
    /\ \E j \in 1..Len(ops) : ops[j].cmd = "INSERT users" /\ ops[j].ok

\* C29: on the creation path the account INSERT, the identifier lookup and
\* the capability INSERT are issued in that order, each at most once and
\* each only after the one before it succeeded; the capability rows
\* (administrator role and user level 10) are written for the identifier the
\* lookup returned.  When the lookup returns no row the capability INSERT is
\* not issued and createAdminUser still completes: the account it inserted
\* ends without the administrator capability.
Thm_C29_CreationSequence ==
    LET At(cmd) == {j \in 1..Len(ops) : ops[j].cmd = cmd}
    IN
    /\ \A cmd \in {"INSERT users", "SELECT ID", "INSERT usermeta"} :
          Cardinality(At(cmd)) <= 1 /\ (At(cmd) # {} => apath = "create")
    /\ \A l \in At("SELECT ID") :
          /\ l > 1 /\ ops[l - 1].cmd = "INSERT users" /\ ops[l - 1].ok
          /\ (ops[l].ok /\ ops[l].arg = <<0>>) =>
                /\ At("INSERT usermeta") = {}
                /\ l = Len(ops)
                /\ apc = "done" /\ stage = "afterManageAdminUser"
                /\ \A r \in usermeta :
                      (r.user_id = users[Len(users)].ID) => r.meta_value # "administrator"
    /\ \A c \in At("INSERT usermeta") :
          /\ c > 1 /\ ops[c - 1].cmd = "SELECT ID" /\ ops[c - 1].ok
          /\ ops[c - 1].arg = <<userId>> /\ userId # 0
          /\ ops[c].ok =>
                /\ MetaRow(userId, "wp_capabilities", "administrator") \in usermeta
                /\ MetaRow(userId, "wp_user_level", "10") \in usermeta
                /\ apc = "done" /\ stage = "afterManageAdminUser"
Wit_C29_LookupReturnedNothing ==
    /\ stage = "afterManageAdminUser" /\ apath = "create" /\ userId = 0
    /\ ops[Len(ops)].cmd = "SELECT ID" /\ ops[Len(ops)].ok
    /\ AdminRows # {}

\* C12: after manageAdminUser has completed without error on an imported
\* database, the hash stored for the configured admin login verifies against
\* the supplied password under the application's verifier, which accepts
\* exactly the portable hash of that password; this holds whether the tool's
\* hasher succeeded or the md5 fallback was used.
Cex_C12_StoredHashVerifies ==
    LET Verifies(hash, password) == hash = <<"$P$B", "phpass", password>>
    IN  (stage = "afterManageAdminUser" /\ apc = "done" /\ sqlSource # "") =>
            \A j \in AdminRows : Verifies(users[j].user_pass, AdminPassword)

\* C11: after manageAdminUser has completed without error on an imported
\* database, every row with the configured admin login has the administrator
\* capability attached and no other role, whether the account came with the
\* dump or was inserted.
Cex_C11_AdminCapability ==
    (stage = "afterManageAdminUser" /\ apc = "done" /\ sqlSource # "") =>
        /\ AdminRows # {}
        /\ \A j \in AdminRows :
              {m.meta_value : m \in {r \in usermeta : r.user_id = users[j].ID
                                                      /\ r.meta_key = "wp_capabilities"}}
                  = {"administrator"}

----------------------------------------------------------------------------
(* Site directory: createWebsiteDirectory and createBackup                  *)

\* createWebsiteDirectory, lines 423-425: does the site directory exist, and
\* is it overwritten without asking
SiteEntry ==
    /\ stage = "createWebsiteDirectory"
    /\ sitepc = "entry"
    /\ ops' = Append(ops, Op(stage, "pathExists", <<>>, "", "", siteDir = "existing"))
    /\ sitepc' = IF siteDir # "existing" THEN "ensureDir"
                 ELSE IF forceOverwrite THEN "backup" ELSE "prompt"
    /\ UNCHANGED <<stage, siteDir, backupFiles>>
    /\ UNCHANGED <<dockerVars, serverUserPw, thisDbUser, thisDbPassword, patchVars, srVars,
                   adminVars, skipDatabaseCreation, createUser, optimizeAfterImport,
                   repairAfterImport, dbExists, cdpc, ipc, dryRun, forceOverwrite,
                   backupBeforeSetup, includeFiles, includeDatabase>>

\* createWebsiteDirectory, lines 432-449: the overwrite prompt; declining
\* ends the process with status 0
SitePrompt ==
    /\ stage = "createWebsiteDirectory"
    /\ sitepc = "prompt"
    /\ \E overwrite \in BOOLEAN :
         /\ ops' = Append(ops, Op(stage, "prompt", <<>>, "", "", overwrite))
         /\ sitepc' = IF overwrite THEN "backup" ELSE "declined"
         /\ stage' = IF overwrite THEN stage ELSE "exit0"
    /\ UNCHANGED <<siteDir, backupFiles>>
    /\ UNCHANGED <<dockerVars, serverUserPw, thisDbUser, thisDbPassword, patchVars, srVars,
                   adminVars, skipDatabaseCreation, createUser, optimizeAfterImport,
                   repairAfterImport, dbExists, cdpc, ipc, dryRun, forceOverwrite,
                   backupBeforeSetup, includeFiles, includeDatabase>>

\* createBackup as createWebsiteDirectory calls it (lines 427-429, 442-445):
\* the backup directories are made, the site files copied, the database
\* dumped and old backups cleaned, in this order; the first step that fails
\* ends the backup, and the catch of lines 393-395 only warns
CreateBackup ==
    /\ stage = "createWebsiteDirectory"
    /\ sitepc = "backup"
    /\ \E failing \in {"none", "ensureDir backup", "copy", "mysqldump"} :
         LET planned == <<"ensureDir backup">>
                        \o (IF includeFiles THEN <<"copy">> ELSE <<>>)
                        \o (IF includeDatabase THEN <<"mysqldump">> ELSE <<>>)
                        \o <<"cleanOldBackups">>
             stops == {j \in 1..Len(planned) : planned[j] = failing}
             last == IF stops = {} THEN Len(planned) ELSE CHOOSE j \in stops : TRUE
             steps == [j \in 1..last |-> Op(stage, planned[j], <<>>, "", "", planned[j] # failing)]
         IN  /\ failing # "none" => stops # {}
             /\ ops' = IF backupBeforeSetup THEN ops \o steps ELSE ops
             /\ backupFiles' = (backupBeforeSetup /\ includeFiles /\ failing \notin {"ensureDir backup", "copy"})
             /\ backupBeforeSetup \/ failing = "none"
    /\ sitepc' = "remove"
    /\ UNCHANGED <<stage, siteDir>>
    /\ UNCHANGED <<dockerVars, serverUserPw, thisDbUser, thisDbPassword, patchVars, srVars,
                   adminVars, skipDatabaseCreation, createUser, optimizeAfterImport,
                   repairAfterImport, dbExists, cdpc, ipc, dryRun, forceOverwrite,
                   backupBeforeSetup, includeFiles, includeDatabase>>

\* createWebsiteDirectory, lines 430 and 446: fs.remove(this.websitePath)
SiteRemove ==
    /\ stage = "createWebsiteDirectory"
    /\ sitepc = "remove"
    /\ \E ok \in BOOLEAN :
         /\ ops' = Logged(Op(stage, "remove", <<>>, "", "", ok), ~ok)
         /\ siteDir' = IF ok THEN "absent" ELSE siteDir
         /\ sitepc' = IF ok THEN "ensureDir" ELSE "failed"
         /\ stage' = IF ok THEN stage ELSE Raise(stage)
    /\ UNCHANGED backupFiles
    /\ UNCHANGED <<dockerVars, serverUserPw, thisDbUser, thisDbPassword, patchVars, srVars,
                   adminVars, skipDatabaseCreation, createUser, optimizeAfterImport,
                   repairAfterImport, dbExists, cdpc, ipc, dryRun, forceOverwrite,
                   backupBeforeSetup, includeFiles, includeDatabase>>

\* createWebsiteDirectory, lines 453-460: fs.ensureDir of the site directory
\* and of its upload subdirectories
SiteEnsureDir ==
    /\ stage = "createWebsiteDirectory"
    /\ sitepc = "ensureDir"
    /\ \E ok \in BOOLEAN :
         /\ ops' = Logged(Op(stage, "ensureDir", <<>>, "", "", ok), ~ok)
         /\ siteDir' = IF ok THEN "new" ELSE siteDir
         /\ sitepc' = IF ok THEN "done" ELSE "failed"
         /\ stage' = IF ok THEN "downloadWordPress" ELSE Raise(stage)
    /\ UNCHANGED backupFiles
    /\ UNCHANGED <<dockerVars, serverUserPw, thisDbUser, thisDbPassword, patchVars, srVars,
                   adminVars, skipDatabaseCreation, createUser, optimizeAfterImport,
                   repairAfterImport, dbExists, cdpc, ipc, dryRun, forceOverwrite,
                   backupBeforeSetup, includeFiles, includeDatabase>>

NextSite ==
    \/ SiteEntry
    \/ SitePrompt
    \/ CreateBackup
    \/ SiteRemove
    \/ SiteEnsureDir

InitSite ==
    /\ stage = "createWebsiteDirectory"
    /\ siteDir \in {"absent", "existing"}
    /\ forceOverwrite \in BOOLEAN
    /\ backupBeforeSetup \in BOOLEAN
    /\ includeFiles \in BOOLEAN
    /\ includeDatabase \in BOOLEAN
    /\ dryRun \in BOOLEAN
    /\ backupFiles = FALSE
    /\ sitepc = "entry"
    /\ skipDatabaseCreation = FALSE /\ createUser = FALSE
    /\ optimizeAfterImport = FALSE /\ repairAfterImport = FALSE
    /\ dbExists = TRUE /\ cdpc = "entry" /\ ipc = "entry"
    /\ IdleThis /\ IdleDocker /\ IdlePatch /\ IdleSR /\ IdleAdmin

SpecSite == InitSite /\ [][NextSite]_vars

\* C23: when backups before setup are enabled, the existing site directory
\* is only removed after a backup that completed: every step of createBackup
\* succeeded and, when the backup includes files, the backup directory holds
\* the copy of the site directory.  A backup that failed leaves the
\* directory in place.
Cex_C23_BackupBeforeRemoval ==
    backupBeforeSetup =>
        \A j \in 1..Len(ops) :
            (ops[j].cmd = "remove" /\ ops[j].ok) =>
                /\ \E k \in 1..(j - 1) : ops[k].cmd = "cleanOldBackups"
                /\ \A k \in 1..(j - 1) :
                      ops[k].cmd \in {"ensureDir backup", "copy", "mysqldump"} => ops[k].ok
                /\ includeFiles => backupFiles

----------------------------------------------------------------------------
(* Provisioning, import and the pipeline: createDatabase, importDatabase,   *)
(* run                                                                      *)

\* the stages of run() in the order the code calls them
StageOrder ==
    <<"createWebsiteDirectory", "downloadWordPress", "ensureDockerMysql", "createDatabase",
      "updateWpConfig", "importDatabase", "performSearchReplace", "manageAdminUser", "finish">>
StageRank(st) ==
    IF st = "installWordPress" THEN 6
    ELSE CHOOSE j \in 1..Len(StageOrder) : StageOrder[j] = st

ConfigFrame ==
    UNCHANGED <<skipDatabaseCreation, createUser, optimizeAfterImport, repairAfterImport,
                dryRun, forceOverwrite, backupBeforeSetup, includeFiles, includeDatabase,
                siteDir, backupFiles, sitepc,
                sqlSource, dockerVars, patchVars,
                skipSearchReplace, srEnabled, srDryRun, oldUrl, oldDomain,
                additionalReplacements, srpc, srIdx, srBefore, srTables, srTable, srCol, srRaw,
                apc, apath, hashedPassword, userId>>

\* a stage outside the engine, taken as one blocking call that may fail
OuterStage(st, next) ==
    /\ stage = st
    /\ \E ok \in BOOLEAN :
         /\ ops' = Logged(Op(st, st, <<>>, "", "", ok), ~ok)
         /\ stage' = IF ok THEN next ELSE Raise(st)
    /\ UNCHANGED <<serverUserPw, thisDbUser, thisDbPassword, dbExists, cdpc, ipc,
                   db, users, usermeta>>
    /\ ConfigFrame

\* run(), line 1545
CreateWebsiteDirectory == OuterStage("createWebsiteDirectory", "downloadWordPress")
\* run(), line 1546
DownloadWordPress == OuterStage("downloadWordPress", "createDatabase")
\* run(), line 1552
InstallWordPress == OuterStage("installWordPress", "finish")
\* run(), lines 1577-1601: plugins, themes, uploads, valet, final backup, hooks
Finish == OuterStage("finish", "success")

\* createDatabase, lines 494-505: skip, or make the container ready first
CreateDatabaseEntry ==
    /\ stage = "createDatabase"
    /\ cdpc = "entry"
    /\ IF skipDatabaseCreation
       THEN stage' = "updateWpConfig" /\ cdpc' = "done"
       ELSE IF ContainerMode
            THEN stage' = "ensureDockerMysql" /\ cdpc' = "docker"
            ELSE stage' = stage /\ cdpc' = "connect"
    /\ UNCHANGED <<serverUserPw, thisDbUser, thisDbPassword, dbExists, ipc, db, users, usermeta, ops>>
    /\ ConfigFrame

\* createDatabase, line 504: ensureDockerMysql returned or raised
DockerReturn ==
    /\ stage = "ensureDockerMysql"
    /\ cdpc = "docker"
    /\ dpc \in {"done", "failed", "timeout"}
    /\ IF dpc = "done"
       THEN stage' = "createDatabase" /\ cdpc' = "connect"
       ELSE stage' = Raise("createDatabase") /\ cdpc' = "failed"
    /\ UNCHANGED <<serverUserPw, thisDbUser, thisDbPassword, dbExists, ipc, db, users, usermeta, ops>>
    /\ ConfigFrame

\* DROP DATABASE IF EXISTS (line 515): the tables of the database afterwards.
\* Mutated to a statement that leaves an existing database alone.
DropDatabase_m(d) == d
DropDatabase(d) == <<>>

\* createDatabase, lines 547-549: this.dbUser and this.dbPassword are assigned
\* after FLUSH PRIVILEGES has returned.  Mutated to assign them as soon as the
\* user has been created.
StoresCredentials_m(cmd) == cmd = "CREATE USER IF NOT EXISTS"
StoresCredentials(cmd) == cmd = "FLUSH PRIVILEGES"

\* a statement of createDatabase on the root connection; done is what a
\* successful statement changes, next the position after it
RootStatement(at, cmd, next) ==
    /\ stage = "createDatabase"
    /\ cdpc = at
    /\ \E ok \in BOOLEAN :
         \* the subject of DROP records whether the database existed
         /\ ops' = Logged(Op(stage, cmd,
                             IF cmd = "DROP DATABASE IF EXISTS" THEN <<dbExists>> ELSE <<>>,
                             RootUser, RootPassword, ok), ~ok)
         /\ cdpc' = IF ok THEN next ELSE "failed"
         /\ stage' = IF ~ok THEN Raise(stage)
                     ELSE IF next = "done" THEN "updateWpConfig" ELSE stage
         /\ dbExists' = IF ok /\ cmd = "DROP DATABASE IF EXISTS" THEN FALSE
                        ELSE IF ok /\ cmd = "CREATE DATABASE" THEN TRUE
                        ELSE dbExists
         /\ db' = IF ok /\ cmd = "DROP DATABASE IF EXISTS" THEN DropDatabase(db) ELSE db
         /\ users' = IF ok /\ cmd = "DROP DATABASE IF EXISTS" THEN <<>> ELSE users
         /\ usermeta' = IF ok /\ cmd = "DROP DATABASE IF EXISTS" THEN {} ELSE usermeta
         /\ serverUserPw' = IF ok /\ cmd = "CREATE USER IF NOT EXISTS" /\ serverUserPw = ""
                            THEN ScopedPassword ELSE serverUserPw
         \* lines 547-549: the scoped credentials are stored after FLUSH PRIVILEGES
         /\ thisDbUser' = IF ok /\ StoresCredentials(cmd) THEN ScopedUser ELSE thisDbUser
         /\ thisDbPassword' = IF ok /\ StoresCredentials(cmd) THEN ScopedPassword
                              ELSE thisDbPassword
    /\ UNCHANGED ipc
    /\ ConfigFrame

\* createDatabase, line 526: if (rows.length === 0) throw.  Mutated to a
\* check that never fires.
NoRows_m(n) == FALSE
NoRows(n) == n = 0

\* createDatabase, lines 525-535: the existence re-query; no row raises
ShowDatabases ==
    /\ stage = "createDatabase"
    /\ cdpc = "verify"
    /\ \E ok \in BOOLEAN, listed \in BOOLEAN :
         LET rows == IF ok /\ listed /\ dbExists THEN 1 ELSE 0
             found == ok /\ ~NoRows(rows)
             \* the subject records rows.length of the answer
         IN  /\ ops' = Logged(Op(stage, "SHOW DATABASES LIKE", <<rows>>,
                                 RootUser, RootPassword, ok),
                              ~found)
             /\ cdpc' = IF ~found THEN "failed"
                        ELSE IF createUser THEN "createUser" ELSE "end"
             /\ stage' = IF found THEN stage ELSE Raise(stage)
    /\ UNCHANGED <<serverUserPw, thisDbUser, thisDbPassword, dbExists, ipc, db, users, usermeta>>
    /\ ConfigFrame

\* run(), lines 1551-1554: install when no dump is configured, import otherwise
AfterUpdateWpConfig ==
    /\ stage = "afterUpdateWpConfig"
    /\ stage' = IF sqlSource = "" THEN "installWordPress" ELSE "importDatabase"
    /\ UNCHANGED <<serverUserPw, thisDbUser, thisDbPassword, dbExists, cdpc, ipc,
                   db, users, usermeta, ops>>
    /\ ConfigFrame

\* const dbUser / dbPassword of importDatabase (lines 858-859)
ImportUser == EffectiveUser(thisDbUser)
ImportPassword == EffectivePassword(thisDbPassword)

\* importDatabase, lines 843-855: the dump file must exist
ImportCheckFile ==
    /\ stage = "importDatabase"
    /\ ipc = "entry"
    /\ ops' = Logged(Op(stage, "pathExists", <<>>, "", "", sqlSource = "present"),
                     sqlSource # "present")
    /\ ipc' = IF sqlSource = "present" THEN "import" ELSE "failed"
    /\ stage' = IF sqlSource = "present" THEN stage ELSE Raise(stage)
    /\ UNCHANGED <<serverUserPw, thisDbUser, thisDbPassword, dbExists, cdpc, db, users, usermeta>>
    /\ ConfigFrame

\* position after the dump is loaded
AfterImport == IF optimizeAfterImport THEN "optimize"
               ELSE IF repairAfterImport THEN "repair" ELSE "done"

\* importDatabase, lines 861-872: mysql ... dbName < dump
ImportDump ==
    /\ stage = "importDatabase"
    /\ ipc = "import"
    \* the dump holds one stored text and no account or one with the admin login
    /\ \E envOk \in BOOLEAN, text \in {<<"o", "x", "h", "o">>},
          rows \in {<<>>, <<UserRow(1, AdminUser, <<"dump-hash", 1>>)>>} :
         LET ok == envOk /\ dbExists /\ AuthOk(ImportUser, ImportPassword)
             names == {TableNames[j] : j \in 1..Len(TableNames)}
         IN  /\ ops' = Logged(Op(stage, "import", <<>>, ImportUser, ImportPassword, ok), ~ok)
             /\ db' = IF ok
                      THEN [t \in DOMAIN db \cup names |->
                               IF t \in names THEN [c \in Columns(t) |-> text] ELSE db[t]]
                      ELSE db
             /\ users' = IF ok THEN rows ELSE users
             /\ usermeta' = IF ok THEN {} ELSE usermeta
             /\ ipc' = IF ok THEN AfterImport ELSE "failed"
             /\ stage' = IF ~ok THEN Raise(stage)
                         ELSE IF AfterImport = "done" THEN "performSearchReplace" ELSE stage
    /\ UNCHANGED <<serverUserPw, thisDbUser, thisDbPassword, dbExists, cdpc>>
    /\ ConfigFrame

\* importDatabase, lines 874-900: the OPTIMIZE TABLE and REPAIR TABLE passes
\* run inside the method's try block, whose catch rethrows
MaintenancePass(at, cmd, next) ==
    /\ stage = "importDatabase"
    /\ ipc = at
    /\ \E envOk \in BOOLEAN :
         LET ok == envOk /\ AuthOk(ImportUser, ImportPassword)
         IN  /\ ops' = Logged(Op(stage, cmd, <<>>, ImportUser, ImportPassword, ok), ~ok)
             /\ ipc' = IF ok THEN next ELSE "failed"
             /\ stage' = IF ~ok THEN Raise(stage)
                         ELSE IF next = "done" THEN "performSearchReplace" ELSE stage
    /\ UNCHANGED <<serverUserPw, thisDbUser, thisDbPassword, dbExists, cdpc, db, users, usermeta>>
    /\ ConfigFrame

\* run(), lines 1556-1577: after manageAdminUser the remaining stages follow
AfterManageAdminUser ==
    /\ stage = "afterManageAdminUser"
    /\ stage' = "finish"
    /\ UNCHANGED <<serverUserPw, thisDbUser, thisDbPassword, dbExists, cdpc, ipc,
                   db, users, usermeta, ops>>
    /\ ConfigFrame

NextRun ==
    \/ CreateWebsiteDirectory
    \/ DownloadWordPress
    \/ CreateDatabaseEntry
    \/ EnsureEntry
    \/ DockerPsAll
    \/ DockerPs
    \/ DockerStart
    \/ VolumeCreate
    \/ DockerRun
    \/ FallbackStart
    \/ Probe
    \/ Sleep
    \/ Timeout
    \/ DockerReturn
    \* createDatabase, lines 507-522
    \/ RootStatement("connect", "connect", "drop")
    \/ RootStatement("drop", "DROP DATABASE IF EXISTS", "create")
    \/ RootStatement("create", "CREATE DATABASE", "verify")
    \/ ShowDatabases
    \* createDatabase, lines 540-552
    \/ RootStatement("createUser", "CREATE USER IF NOT EXISTS", "grant")
    \/ RootStatement("grant", "GRANT", "flush")
    \/ RootStatement("flush", "FLUSH PRIVILEGES", "end")
    \/ RootStatement("end", "connection.end", "done")
    \/ UpdateWpConfig
    \/ AfterUpdateWpConfig
    \/ InstallWordPress
    \/ ImportCheckFile
    \/ ImportDump
    \/ MaintenancePass("optimize", "OPTIMIZE TABLE",
                       IF repairAfterImport THEN "repair" ELSE "done")
    \/ MaintenancePass("repair", "REPAIR TABLE", "done")
    \/ NextSR
    \/ NextAdmin
    \/ AfterManageAdminUser
    \/ Finish

\* the generated template wp-config-sample.php
TemplateText ==
    <<Def("DB_NAME", "sp", "database_name_here"), Def("DB_USER", "sp", "username_here"),
      Def("DB_PASSWORD", "sp", "password_here"), Def("DB_HOST", "sp", "localhost"),
      Def("DB_CHARSET", "sp", "utf8"), Def("DB_COLLATE", "sp", "")>>
    \o [j \in 1..Len(SaltKeys) |-> Def(SaltKeys[j], "sp", "put your unique phrase here")]
    \o <<Tok("var", "$table_prefix", "", "wp_"), DefRaw("WP_DEBUG", "sp", "false"),
         Marker("Happy publishing. */"), Blank, Tok("other", "", "", "ABSPATH"), Blank,
         Tok("req", "wp-settings.php", "bare", "")>>

InitRun ==
    /\ stage = "createWebsiteDirectory"
    /\ ops = <<>>
    \* configuration
    /\ skipDatabaseCreation \in BOOLEAN
    /\ createUser \in BOOLEAN
    /\ optimizeAfterImport \in BOOLEAN
    /\ repairAfterImport \in BOOLEAN
    /\ sqlSource \in {"", "missing", "present"}
    /\ dockerEnabled \in BOOLEAN
    /\ dryRun \in BOOLEAN
    \* the site directory is new and is taken as one call (CreateWebsiteDirectory)
    /\ forceOverwrite = FALSE /\ backupBeforeSetup = FALSE
    /\ includeFiles = FALSE /\ includeDatabase = FALSE
    /\ siteDir = "absent" /\ backupFiles = FALSE /\ sitepc = "entry"
    \* server and container runtime
    /\ daemonUp = TRUE
    /\ container \in (IF dockerEnabled THEN ContainerStates ELSE {"absent"})
    /\ containers = IF container = "absent" THEN 0 ELSE 1
    /\ volumeExists = FALSE
    /\ readyAt \in (IF dockerEnabled THEN {2, MaxAttempts + 1} ELSE {1})
    /\ serverUserPw = ""
    /\ dbExists \in BOOLEAN
    \* the database a previous run left behind
    /\ db = IF dbExists THEN [t \in {"wp_options"} |-> [c \in Columns(t) |-> <<"left">>]]
            ELSE <<>>
    /\ users = <<>>
    /\ usermeta = {}
    \* the object after construction
    /\ thisDbUser = ""
    /\ thisDbPassword = ""
    /\ dpc = "entry" /\ dcall = 1 /\ dfirst = "none" /\ di = 0 /\ probes = 0 /\ waits = 0
    /\ lastProbeOk = FALSE /\ dcmds = <<>> /\ dstart = container /\ dorigin = container
    /\ cdpc = "entry"
    /\ ipc = "entry"
    /\ wpConfigExists = FALSE
    /\ wpConfig = TemplateText
    /\ enableDebug = TRUE
    /\ disableFileEditing = TRUE
    /\ memoryLimit = MemoryLimit
    /\ customWpConfig = <<>>
    /\ patchRuns = 0 /\ patchIn = <<>> /\ firstOut = <<>> /\ lastSalts = <<>>
    /\ skipSearchReplace = FALSE
    /\ srEnabled = TRUE
    /\ srDryRun = FALSE
    /\ oldUrl = <<"h", "o">>
    /\ oldDomain = NewDomain
    /\ additionalReplacements = <<>>
    /\ srpc = "entry" /\ srIdx = 1 /\ srBefore = <<>> /\ srTables = <<>>
    /\ srTable = 1 /\ srCol = 1 /\ srRaw = {}
    /\ apc = "entry" /\ apath = "" /\ hashedPassword = <<>> /\ userId = 0

Spec == InitRun /\ [][NextRun]_vars

\* C13: provisioning is destructive and clean.  CREATE DATABASE is only issued
\* after a successful DROP DATABASE IF EXISTS, whether or not the database
\* existed; once CREATE DATABASE has succeeded the database exists, and from
\* then on it holds no table left over from before the run.
Thm_C13_ProvisioningClean ==
    /\ \A k \in 1..Len(ops) :
          ops[k].cmd = "CREATE DATABASE" =>
              (k > 1 /\ ops[k - 1].cmd = "DROP DATABASE IF EXISTS" /\ ops[k - 1].ok)
    /\ \A k \in 1..Len(ops) :
          (ops[k].cmd = "CREATE DATABASE" /\ ops[k].ok) =>
              /\ dbExists
              /\ \A t \in DOMAIN db : \A c \in DOMAIN db[t] : db[t][c] # <<"left">>
              /\ (ipc \in {"entry", "import"} => db = <<>>)
Wit_C13_DroppedExisting ==
    /\ stage = "updateWpConfig" /\ cdpc = "done" /\ db = <<>> /\ dbExists
    /\ \E k \in 1..Len(ops) :
          ops[k].cmd = "DROP DATABASE IF EXISTS" /\ ops[k].ok /\ ops[k].arg = <<TRUE>>

\* C14: if the existence re-query after CREATE DATABASE answers with no row,
\* createDatabase raises: the query is the last command of the run, no
\* CREATE USER or GRANT is issued, no scoped credential is recorded, and the
\* run ends with an error before any later stage.
Thm_C14_MissingDatabaseRaises ==
    \A j \in 1..Len(ops) :
        (ops[j].cmd = "SHOW DATABASES LIKE" /\ ops[j].ok /\ ops[j].arg = <<0>>) =>
            /\ Len(ops) = j + 1 /\ ops[j + 1] = Throw("createDatabase")
            /\ stage = "exit1"
            /\ thisDbUser = "" /\ thisDbPassword = "" /\ serverUserPw = ""
            /\ \A k \in 1..Len(ops) :
                  /\ ops[k].cmd \notin {"CREATE USER IF NOT EXISTS", "GRANT", "FLUSH PRIVILEGES"}
                  /\ StageRank(ops[k].stage) <= StageRank("createDatabase")
Wit_C14_NoRowAnswered ==
    /\ stage = "exit1" /\ createUser /\ sqlSource = "present"
    /\ \E j \in 1..Len(ops) :
          ops[j].cmd = "SHOW DATABASES LIKE" /\ ops[j].ok /\ ops[j].arg = <<0>>

\* C19: when a dump path is configured and the file does not exist,
\* importDatabase raises at its file check: the step leaves the database
\* content as it was and ends the run, and no import, optimize or repair
\* command and no command of search/replace or admin reconciliation is ever
\* issued.
Thm_C19_MissingDumpIsFatal ==
    /\ [](sqlSource = "missing" =>
            \A j \in 1..Len(ops) :
                /\ ops[j].cmd \notin {"import", "OPTIMIZE TABLE", "REPAIR TABLE"}
                /\ ops[j].stage \notin {"performSearchReplace", "manageAdminUser"})
    /\ [][(sqlSource = "missing" /\ stage = "importDatabase") =>
            /\ stage' = "exit1"
            /\ ops' = ops \o <<Op("importDatabase", "pathExists", <<>>, "", "", FALSE),
                               Throw("importDatabase")>>
            /\ db' = db /\ users' = users /\ usermeta' = usermeta /\ dbExists' = dbExists]_vars
Wit_C19_MissingDumpRaised ==
    /\ sqlSource = "missing" /\ stage = "exit1" /\ dbExists
    /\ ops[Len(ops)] = Throw("importDatabase")

\* C20: with container mode disabled no container-existence query, volume
\* creation, container creation, container start or readiness probe is ever
\* issued, the container runtime is left as it was, and createDatabase goes
\* from its entry straight to the connection attempt: the first command of
\* the stage is the connect.
Thm_C20_NoContainerHandling ==
    /\ [](~dockerEnabled =>
            /\ dcmds = <<>> /\ probes = 0 /\ waits = 0
            /\ container = "absent" /\ containers = 0 /\ ~volumeExists
            /\ stage # "ensureDockerMysql"
            /\ \A j \in 1..Len(ops) :
                  /\ ops[j].stage # "ensureDockerMysql"
                  /\ (ops[j].stage = "createDatabase"
                      /\ (\A i \in 1..(j - 1) : ops[i].stage # "createDatabase"))
                     => ops[j].cmd = "connect")
    /\ [][(~dockerEnabled /\ ~skipDatabaseCreation
            /\ stage = "createDatabase" /\ cdpc = "entry") =>
            stage' = "createDatabase" /\ cdpc' = "connect" /\ ops' = ops]_vars
Wit_C20_ConnectedWithoutContainer ==
    /\ ~dockerEnabled /\ ~skipDatabaseCreation
    /\ stage = "createDatabase" /\ cdpc = "drop"
    /\ ops[Len(ops)].cmd = "connect" /\ ops[Len(ops)].ok

\* C21: an error raised by any stage ends the run with exit status 1: the
\* raise is the last event of the run, the success summary is never reached,
\* nothing is issued afterwards, and the raising step undoes nothing: the
\* database, its accounts, the server's users, the container, the volume and
\* the configuration file stay as they were when the failure happened.
Thm_C21_AbortKeepsEffects ==
    /\ [](\A j \in 1..Len(ops) :
            ops[j].cmd = "throw" =>
                /\ j = Len(ops)
                \* the error of ensureDockerMysql passes through createDatabase's catch
                /\ stage = "exit1" \/ (stage = "ensureDockerMysql" /\ dpc \in {"failed", "timeout"}))
    /\ [][(\E j \in 1..Len(ops) : ops[j].cmd = "throw") =>
            (stage # "exit1" /\ stage' = "exit1" /\ ops' = ops)]_vars
    /\ [][stage' = "exit1" =>
            /\ db' = db /\ dbExists' = dbExists /\ users' = users /\ usermeta' = usermeta
            /\ serverUserPw' = serverUserPw
            /\ container' = container /\ containers' = containers
            /\ volumeExists' = volumeExists
            /\ wpConfig' = wpConfig /\ wpConfigExists' = wpConfigExists]_vars
Wit_C21_DroppedThenFailed ==
    /\ stage = "exit1" /\ ~dbExists /\ db = <<>>
    /\ \E j \in 1..Len(ops) :
          ops[j].cmd = "DROP DATABASE IF EXISTS" /\ ops[j].ok /\ ops[j].arg = <<TRUE>>
    /\ ops[Len(ops)] = Throw("createDatabase")

\* C27: in dedicated-user mode CREATE USER IF NOT EXISTS, GRANT and FLUSH
\* PRIVILEGES are issued in that order, each only after the one before it
\* succeeded.  When CREATE USER succeeded and GRANT fails, createDatabase
\* raises right after the GRANT: nothing else is issued (no DROP USER), the
\* server keeps the user, and this.dbUser / this.dbPassword stay unset.
Thm_C27_GrantFailureAborts ==
    LET At(cmd) == {j \in 1..Len(ops) : ops[j].cmd = cmd}
        userStatements == {"CREATE USER IF NOT EXISTS", "GRANT", "FLUSH PRIVILEGES"}
    IN
    /\ \A cmd \in userStatements : Cardinality(At(cmd)) <= 1 /\ (At(cmd) # {} => createUser)
    /\ \A g \in At("GRANT") :
          /\ g > 1 /\ ops[g - 1].cmd = "CREATE USER IF NOT EXISTS" /\ ops[g - 1].ok
          /\ ~ops[g].ok =>
                /\ Len(ops) = g + 1 /\ ops[g + 1] = Throw("createDatabase")
                /\ stage = "exit1"
                /\ serverUserPw = ScopedPassword
                /\ thisDbUser = "" /\ thisDbPassword = ""
    /\ \A f \in At("FLUSH PRIVILEGES") :
          f > 1 /\ ops[f - 1].cmd = "GRANT" /\ ops[f - 1].ok
    /\ \A j \in 1..Len(ops) : ops[j].cmd # "DROP USER"
Wit_C27_GrantFailed ==
    /\ stage = "exit1" /\ createUser /\ Len(ops) > 2
    /\ ops[Len(ops) - 1].cmd = "GRANT" /\ ~ops[Len(ops) - 1].ok
    /\ ops[Len(ops) - 2].cmd = "CREATE USER IF NOT EXISTS" /\ ops[Len(ops) - 2].ok
    /\ serverUserPw = ScopedPassword

\* C22: dry run.  With advanced.dryRun set a run changes nothing: no site
\* directory is created or removed, no DROP or CREATE DATABASE is issued, no
\* configuration file is written, no dump is imported and no row of the
\* database is modified.
Cex_C22_DryRunChangesNothing ==
    dryRun =>
        /\ \A j \in 1..Len(ops) :
              ops[j].cmd \notin {"createWebsiteDirectory", "DROP DATABASE IF EXISTS",
                                 "CREATE DATABASE", "write wp-config.php", "import",
                                 "wp search-replace", "UPDATE", "UPDATE users",
                                 "INSERT users", "INSERT usermeta"}
        /\ ~wpConfigExists
        /\ users = <<>> /\ usermeta = {}
        /\ \A t \in DOMAIN db : t = "wp_options" /\ db[t]["option_value"] = <<"left">>

\* C31: outside the readiness poll and the search/replace fallback a failing
\* command of the engine (container create or start, a database statement,
\* the dump import, an admin statement) is attempted once and its failure is
\* propagated: the next event of the run is the raise of its stage, not
\* another command.  (The count query of checkAdminUserExists, fail-open by
\* design, is left aside.)
Cex_C31_NoRetryNoAlternative ==
    \A j \in 1..Len(ops) :
        (/\ ~ops[j].ok
         /\ ops[j].cmd \in {"run", "start", "connect", "DROP DATABASE IF EXISTS",
                            "CREATE DATABASE", "CREATE USER IF NOT EXISTS", "GRANT",
                            "FLUSH PRIVILEGES", "import", "UPDATE users",
                            "INSERT users", "SELECT ID", "INSERT usermeta"})
        => (j < Len(ops) => ops[j + 1] = Throw(ops[j].stage))

----------------------------------------------------------------------------
(* Sequencing of the external invocations of a run: every invocation is an *)
(* execSync (which blocks the process) or an awaited promise (run() is     *)
(* suspended until it settles).  A call and its return are separate        *)
(* events of the log here.                                                  *)

\* the external invocations of a run without failures, in program order,
\* for the configuration at hand (run(), lines 1545-1580, and the methods
\* it awaits)
ExternalCalls ==
    <<"pathExists", "ensureDir", "downloadWordPress">>
    \o (IF skipDatabaseCreation THEN <<>>
        ELSE (IF ~dockerEnabled THEN <<>>
              ELSE IF container = "absent"
                   THEN <<"ps-a", "volume create", "run", "probe", "sleep", "probe">>
              ELSE IF container = "stopped"
                   THEN <<"ps-a", "ps", "start", "probe", "sleep", "probe">>
              ELSE <<"ps-a", "ps">>)
             \o <<"connect", "DROP DATABASE IF EXISTS", "CREATE DATABASE", "SHOW DATABASES LIKE">>
             \o (IF createUser THEN <<"CREATE USER IF NOT EXISTS", "GRANT", "FLUSH PRIVILEGES">>
                 ELSE <<>>)
             \o <<"connection.end">>)
    \o <<"read wp-config.php", "axios.get salt", "write wp-config.php">>
    \o (IF sqlSource = "" THEN <<"installWordPress">>
        ELSE <<"pathExists dump", "import">>
             \o (IF optimizeAfterImport THEN <<"OPTIMIZE TABLE">> ELSE <<>>)
             \o (IF repairAfterImport THEN <<"REPAIR TABLE">> ELSE <<>>)
             \o <<"wp search-replace url", "wp search-replace domain", "SELECT COUNT",
                  "wp eval wp_hash_password", "INSERT users", "SELECT ID", "INSERT usermeta">>)
    \o <<"finish">>

\* the calls that have been issued and have not returned
Outstanding ==
    {j \in 1..Len(ops) :
        /\ ops[j].arg[1] = "call"
        /\ \A k \in (j + 1)..Len(ops) : ops[k].arg # <<"return", ops[j].arg[2]>>}

\* execSync blocks and await suspends run(): the next call is only made when
\* no call is outstanding.  Mutated to a call whose result is not awaited.
MayCall_m(outstanding) == TRUE
MayCall(outstanding) == outstanding = {}

\* the next invocation of the program is issued
CallExternal ==
    /\ stage = "run"
    /\ MayCall(Outstanding)
    /\ LET issued == Cardinality({j \in 1..Len(ops) : ops[j].arg[1] = "call"})
       IN  /\ issued < Len(ExternalCalls)
           /\ ops' = Append(ops, Op(stage, ExternalCalls[issued + 1], <<"call", issued + 1>>,
                                    "", "", TRUE))
    /\ UNCHANGED <<stage, serverUserPw, thisDbUser, thisDbPassword, dockerVars, patchVars,
                   srVars, adminVars, runVars>>

\* an outstanding invocation returns; a failure ends the run (lines 1603-1609)
ReturnExternal ==
    /\ stage = "run"
    /\ \E j \in Outstanding : \E ok \in BOOLEAN :
         /\ ops' = Append(ops, Op(stage, ops[j].cmd, <<"return", ops[j].arg[2]>>, "", "", ok))
         /\ stage' = IF ~ok THEN Raise(stage)
                     ELSE IF ops[j].arg[2] = Len(ExternalCalls) THEN "success" ELSE stage
    /\ UNCHANGED <<serverUserPw, thisDbUser, thisDbPassword, dockerVars, patchVars,
                   srVars, adminVars, runVars>>

NextSeq ==
    \/ CallExternal
    \/ ReturnExternal

InitSeq ==
    /\ stage = "run"
    /\ ops = <<>>
    \* configuration
    /\ skipDatabaseCreation \in BOOLEAN
    /\ createUser \in BOOLEAN
    /\ optimizeAfterImport \in BOOLEAN
    /\ repairAfterImport \in BOOLEAN
    /\ sqlSource \in {"", "present"}
    /\ dockerEnabled \in BOOLEAN
    /\ container \in (IF dockerEnabled THEN ContainerStates ELSE {"absent"})
    \* everything else is at rest: this specification is about the order of
    \* the calls only
    /\ daemonUp = TRUE /\ containers = 0 /\ volumeExists = FALSE /\ readyAt = 1
    /\ dpc = "entry" /\ dcall = 1 /\ dfirst = "none" /\ di = 0 /\ probes = 0 /\ waits = 0
    /\ lastProbeOk = FALSE /\ dcmds = <<>> /\ dstart = "absent" /\ dorigin = "absent"
    /\ serverUserPw = "" /\ thisDbUser = "" /\ thisDbPassword = ""
    /\ IdlePatch /\ IdleSR
    /\ users = <<>> /\ usermeta = {} /\ apc = "entry" /\ apath = ""
    /\ hashedPassword = <<>> /\ userId = 0
    /\ dbExists = TRUE /\ cdpc = "entry" /\ ipc = "entry" /\ dryRun = FALSE
    /\ forceOverwrite = FALSE /\ backupBeforeSetup = FALSE
    /\ includeFiles = FALSE /\ includeDatabase = FALSE
    /\ siteDir = "absent" /\ backupFiles = FALSE /\ sitepc = "entry"

SpecSeq == InitSeq /\ [][NextSeq]_vars

Cex_C33_BootstrapOnce ==
    patchRuns >= 1 =>
        Cardinality({j \in 1..Len(firstOut) : firstOut[j].t = "req"}) = 1

\* C34: every piece of the input that follows the marker is still in the
\* patched output, unchanged and in the same order.
Cex_C34_TailKept ==
    patchRuns >= 1 =>
        LET m == First({i \in 1..Len(patchIn) : IsMarker(patchIn[i])})
            tail == SubSeq(patchIn, m + 1, Len(patchIn))
        IN  m # 0 =>
                \E f \in [1..Len(tail) -> 1..Len(firstOut)] :
                    /\ \A i \in 1..Len(tail) : firstOut[f[i]] = tail[i]
                    /\ \A i \in 1..(Len(tail) - 1) : f[i] < f[i + 1]

\* C38: after patching the generated template the eight secret keys of the
\* file carry the values generateSalts returned in this run.
Cex_C38_SaltsReachFile ==
    (patchRuns = 1 /\ patchIn = TemplateText) =>
        \A k \in 1..Len(SaltKeys) :
            \E j \in 1..Len(wpConfig) :
                /\ wpConfig[j].t = "def" /\ wpConfig[j].k = SaltKeys[k]
                /\ wpConfig[j].v # "put your unique phrase here"
                /\ \E i \in 1..Len(lastSalts) :
                      lastSalts[i].k = SaltKeys[k] /\ wpConfig[j].v = lastSalts[i].v

\* C35: in container mode ensureDockerMysql reports the server ready only
\* after a readiness probe of that call has succeeded, the path of a
\* container found running included.
Cex_C35_ReadyAfterProbe ==
    (dockerEnabled /\ dpc = "done") => (probes >= 1 /\ lastProbeOk)

\* C36: when for some rule the primary invocation and the raw strategy both
\* fail (the table enumeration fails), performSearchReplace does not return
\* normally and the run does not go on to the admin reconciliation.
Cex_C36_DoubleFailureSurfaced ==
    stage = "manageAdminUser" =>
        ~\E j \in 2..Len(ops) :
            /\ ops[j].cmd = "SHOW TABLES" /\ ~ops[j].ok
            /\ ops[j - 1].cmd = "wp search-replace" /\ ~ops[j - 1].ok

\* C37: with searchReplace.dryRun no step of performSearchReplace modifies a
\* stored row, whichever strategy serves the rule.
Cex_C37_DryRunBothStrategies ==
    [][(stage = "performSearchReplace" /\ srDryRun) => db' = db]_vars

\* C5: in dedicated-user mode, once createDatabase has succeeded, every
\* later database access authenticates as the scoped user with the generated
\* scoped password, and updateWpConfig writes these two as DB_USER and
\* DB_PASSWORD; the root user and the root password are never used.
Cex_C5_ScopedCredentialEverywhere ==
    LET LaterStages ==
            {"updateWpConfig", "importDatabase", "performSearchReplace", "manageAdminUser"}
        DefinedValues(text, key) ==
            {text[j].v : j \in {i \in 1..Len(text) : text[i].t = "def" /\ text[i].k = key}}
    IN
    (createUser /\ ~skipDatabaseCreation /\ thisDbUser = ScopedUser) =>
        /\ \A j \in 1..Len(ops) :
              (ops[j].stage \in LaterStages /\ ops[j].user # "") =>
                  (ops[j].user = ScopedUser /\ ops[j].pw = ScopedPassword)
        /\ (patchRuns > 0 =>
              /\ DefinedValues(wpConfig, "DB_USER") = {ScopedUser}
              /\ DefinedValues(wpConfig, "DB_PASSWORD") = {ScopedPassword})

\* C6: the optimize and repair passes are best-effort.  A failing OPTIMIZE
\* TABLE or REPAIR TABLE command does not make importDatabase raise: the
\* run is not aborted by it.
Cex_C6_MaintenanceBestEffort ==
    \A j \in 1..Len(ops) :
        (ops[j].cmd \in {"OPTIMIZE TABLE", "REPAIR TABLE"} /\ ~ops[j].ok) =>
            /\ stage # "exit1"
            /\ \A k \in 1..Len(ops) : ops[k] # Throw("importDatabase")

\* C8: pipeline ordering and abort.  The commands of a run are issued in
\* stage order (container readiness, provisioning, configuration patching,
\* then import, search/replace, admin reconciliation when a dump is
\* configured), never by a stage the run has not reached yet, and once a
\* stage has raised an error no further command is issued.
Thm_C8_PipelineOrder ==
    LET CurrentRank ==
            CASE stage = "afterUpdateWpConfig" -> 5
              [] stage = "afterManageAdminUser" -> 8
              [] stage \in {"success", "exit1"} -> 9
              [] OTHER -> StageRank(stage)
    IN
    \* each command against the one issued right after it
    /\ \A j \in 1..(Len(ops) - 1) :
          StageRank(ops[j].stage) <= StageRank(ops[j + 1].stage)
    /\ \A j \in 1..Len(ops) : StageRank(ops[j].stage) <= CurrentRank
    /\ \A j \in 1..Len(ops) : ops[j].cmd = "throw" => j = Len(ops)
    /\ \A j \in 1..Len(ops) :
          ops[j].stage \in {"importDatabase", "performSearchReplace", "manageAdminUser"}
              => sqlSource # ""
    /\ (stage = "exit1" => ops # <<>> /\ ops[Len(ops)].cmd = "throw")
Wit_C8_FullPipeline ==
    /\ stage = "success"
    /\ sqlSource = "present" /\ dockerEnabled /\ ~skipDatabaseCreation
    /\ \A r \in 1..Len(StageOrder) : \E j \in 1..Len(ops) : ops[j].stage = StageOrder[r]

====
